---- MODULE Spec2Model ----
(***************************************************************************)
(* A model of craw-hot (src/skills/craw-hot/scripts/craw_hot.py): the      *)
(* crawl supervision of CrawlHot (browser_lock, worker thread, timeout     *)
(* timer, retry loop, scheduler), the per-profile collection of            *)
(* PostCrawler, the command execution and recovery of BrowserClient, and   *)
(* the singleton lock of ProcessLock.                                      *)
(*                                                                         *)
(* Specifications:                                                         *)
(*   Spec       crawl_all_users: pool tasks, browser_lock, workers, timers *)
(*   FairSpec   Spec with the fairness of the thread scheduler             *)
(*   SpecCrawl  one worker's _retry_crawl_user / crawl_user /              *)
(*              _scroll_and_collect, command by command                    *)
(*   SpecClient BrowserClient._execute_action / _restart_browser           *)
(*   SpecLock   ProcessLock and CrawlHot.__init__ / __del__ / main         *)
(*   SpecSession one run over the profile list with the restart budget     *)
(*   SpecMain   main(), crawl_all_users and save_markdown, one run         *)
(*   SpecFetch  TwitterApiClient.fetch_post, one call                      *)
(*   SpecExtract the extraction script of _get_scroll_js, one pass         *)
(*   SpecParse  BrowserClient._parse_output, one call                      *)
(*   SpecRestart _restart_browser entered by several threads               *)
(***************************************************************************)
EXTENDS Integers, Sequences, FiniteSets, TLC

----------------------------------------------------------------------------
(* Config (dataclass defaults)                                             *)

scroll_max_attempts == 10
scroll_no_new_threshold == 2
scroll_max_consecutive_errors == 3
scroll_early_stop_on_yesterday == TRUE
max_retries == 5
browser_action_max_attempts == 2
user_crawl_workers == 5
browser_max_restarts == 10

----------------------------------------------------------------------------
(* Bounds of the model                                                     *)

\* number of profiles UserManager.load returns
MaxUsers == 2
\* post URLs are identified by their status id, 1..MaxUrlId
MaxUrlId == 2
\* the longest URL list one evaluate reply carries
MaxReplyLen == 2
\* the longest sequence of evaluate replies of one supervised attempt
MaxRunLen == 3
\* status ids below WindowCutoff are older than now - 24h in milliseconds
WindowCutoff == 2
\* number of craw-hot processes started
MaxInstances == 3
\* the most lines of stdout a command prints
MaxLines == 2
\* the most post URLs the profiles of one run return together
MaxPosts == 3
\* the most characters after the last "/" of a URL handed to fetch_post
MaxIdLen == 2
\* the most article elements of the document of one extraction pass
MaxArticles == 2
\* the most threads inside crawl_user at the same time
MaxThreads == 2

None == "None"

Users == 1..MaxUsers
Instances == 1..MaxInstances
UrlIds == 1..MaxUrlId

\* the sequences over S of length at most n
SeqsUpTo(S, n) == UNION {[1..k -> S] : k \in 0..n}

SeqToSet(s) == {s[i] : i \in 1..Len(s)}

----------------------------------------------------------------------------
(* PostCrawler._scroll_and_collect and PostCrawler.crawl_user as functions *)
(* of what the browser answers                                             *)

\* What BrowserClient.evaluate hands to the scroll loop:
\*   "None"    the command failed (or no target id is held)
\*   "list"    a list of URLs, in page order, possibly repeating one
\*   "str"     a string json.loads rejects (JSONDecodeError)
\*   "scalar"  a boolean, number or object: json.loads raises TypeError
ListReplies == {[kind |-> "list", urls |-> l] : l \in SeqsUpTo(UrlIds, MaxReplyLen)}

ErrorReplies == {[kind |-> k, urls |-> <<>>] : k \in {"None", "str", "scalar"}}

EvaluateReplies == ListReplies \cup ErrorReplies

\* the locals of _scroll_and_collect before the first iteration; exit is
\* "running" inside the loop and names the way the loop was left afterwards
ScrollStart ==
    [urls |-> <<>>, seen_ids |-> {}, no_new_count |-> 0,
     consecutive_errors |-> 0, found_yesterday |-> FALSE,
     scroll_num |-> 1, evaluates |-> 0, presses |-> 0, exit |-> "running"]

\* a faulty filter that lets every URL of the reply through
NewUrlsUnfiltered(page_urls, seen_ids) == page_urls

\* new_urls = [u for u in page_urls if u not in seen_ids]
NewUrls(page_urls, seen_ids) == SelectSeq(page_urls, LAMBDA u : u \notin seen_ids)

\* tweet_timestamp < one_day_ago, the status id read as a millisecond time
OlderThanWindow(url) == url < WindowCutoff

\* a faulty test that lets the loop run one iteration longer
ConvergedLate(count) == count > scroll_no_new_threshold

\* if no_new_count >= self.config.scroll_no_new_threshold: break
Converged(count) == count >= scroll_no_new_threshold

\* the try block of one iteration, for the reply of evaluate
ScrollBody(st, reply) ==
    IF reply.kind = "None"
    THEN [st EXCEPT !.consecutive_errors = @ + 1]
    ELSE IF reply.kind = "scalar"
    THEN [st EXCEPT !.consecutive_errors = 0, !.exit = "raised"]
    ELSE IF reply.kind = "str"
    THEN [st EXCEPT !.consecutive_errors = 0 + 1]
    ELSE LET new_urls == NewUrls(reply.urls, st.seen_ids)
             count == st.no_new_count + 1
         IN  IF new_urls # <<>>
             THEN [st EXCEPT !.consecutive_errors = 0,
                             !.seen_ids = @ \cup SeqToSet(new_urls),
                             !.urls = @ \o new_urls,
                             !.no_new_count = 0]
             ELSE IF Converged(count)
             THEN [st EXCEPT !.consecutive_errors = 0,
                             !.no_new_count = count,
                             !.exit = "converged"]
             ELSE IF /\ scroll_early_stop_on_yesterday
                     /\ st.scroll_num = 1
                     /\ st.urls # <<>>
                     /\ OlderThanWindow(st.urls[1])
             THEN [st EXCEPT !.consecutive_errors = 0,
                             !.no_new_count = count,
                             !.found_yesterday = TRUE,
                             !.exit = "yesterday"]
             ELSE [st EXCEPT !.consecutive_errors = 0, !.no_new_count = count]

\* a faulty loop bound that allows one iteration too many
MoreScrollsOneMore(num) == num <= scroll_max_attempts

\* whether range(1, scroll_max_attempts + 1) holds a value after num, which
\* is also the test `if scroll_num < self.config.scroll_max_attempts`
MoreScrolls(num) == num < scroll_max_attempts

\* one iteration of the for loop: evaluate, the try block, the give-up check,
\* and the PageDown press when another iteration follows
ScrollIter(st, reply) ==
    LET b == [ScrollBody(st, reply) EXCEPT !.evaluates = @ + 1]
    IN  IF b.exit # "running"
        THEN b
        ELSE IF b.consecutive_errors >= scroll_max_consecutive_errors
        THEN [b EXCEPT !.exit = "aborted"]
        ELSE IF b.found_yesterday
        THEN [b EXCEPT !.exit = "yesterday"]
        ELSE IF MoreScrolls(b.scroll_num)
        THEN [b EXCEPT !.scroll_num = @ + 1, !.presses = @ + 1]
        ELSE [b EXCEPT !.exit = "exhausted"]

\* the loop run over a sequence of replies, as far as the loop consumes them
RECURSIVE ScrollRun(_, _)
ScrollRun(st, replies) ==
    IF replies = <<>> \/ st.exit # "running"
    THEN st
    ELSE ScrollRun(ScrollIter(st, Head(replies)), Tail(replies))

\* crawl_user's outcome: the exception it raises or the URLs it returns
Raised(kind) == [kind |-> kind, urls |-> <<>>]

\* a faulty crawl_user that raises a plain Exception on an empty list
CrawlUserResultEmptyFails(st) ==
    IF st.exit = "raised" \/ st.urls = <<>>
    THEN Raised("Exception")
    ELSE [kind |-> "urls", urls |-> st.urls]

\* lines 735-741, for the locals the scroll loop ended with
CrawlUserResult(st) ==
    IF st.exit = "raised"
    THEN Raised("Exception")
    ELSE IF st.urls = <<>>
    THEN Raised("NoPostsFoundError")
    ELSE [kind |-> "urls", urls |-> st.urls]

CrawlUser(available, navigated, replies) ==
    IF ~available
    THEN Raised("Exception")
    ELSE IF ~navigated
    THEN Raised("Exception")
    ELSE CrawlUserResult(ScrollRun(ScrollStart, replies))

\* a faulty retry loop that makes one attempt too many
ShouldRetryOnceMore(a) == a <= max_retries

\* _retry_crawl_user: whether the loop goes on after a failed attempt
ShouldRetry(a) == a < max_retries

\* _retry_crawl_user, after attempt a ended as `kind`: return the URLs,
\* return [] on NoPostsFoundError, otherwise sleep and go on or give up
AfterAttempt(a, kind) ==
    IF kind = "Exception" /\ ShouldRetry(a) THEN "backoff" ELSE "done"

\* the replies the supervised workers of Spec are run on, and the reply
\* sequences that take the scroll loop exactly to its end
SupervisedReplies ==
    {[kind |-> "list", urls |-> l] : l \in {<<>>, <<1>>}} \cup ErrorReplies

CompleteRuns(replies, n) ==
    {r \in SeqsUpTo(replies, n) :
        /\ r # <<>>
        /\ ScrollRun(ScrollStart, r).exit # "running"
        /\ ScrollRun(ScrollStart, SubSeq(r, 1, Len(r) - 1)).exit = "running"}

SupervisedOutcomes ==
    {CrawlUser(a, n, r) : a \in BOOLEAN, n \in BOOLEAN,
                          r \in CompleteRuns(SupervisedReplies, MaxRunLen)}

----------------------------------------------------------------------------
(* State                                                                   *)

VARIABLES
    \* --- CrawlHot.crawl_all_users (Spec, FairSpec)
    task,          \* per profile, where its pool task crawl_single_user is
    browser_lock,  \* the profiles whose task holds browser_lock: {} or {u}
    worker,        \* per profile, where the thread running _worker is
    attempt,       \* per profile, the attempt of _retry_crawl_user
    outcome,       \* per profile, how the latest attempt ended
    result,        \* per profile, the list result of _retry_with_timeout
    timer,         \* per profile, the stage of the threading.Timer
    exception,     \* per profile, exception[0] of _retry_with_timeout
    returned,      \* per profile, what crawl_single_user returned
    logged,        \* per profile, the error _retry_with_timeout logged
    all_results,   \* the entries of all_results, in insertion order
    aliased,       \* per profile, whether what crawl_single_user returned is
                   \* the list object `result` the worker extends
    completed_count, \* completed_count of crawl_all_users
    txt,           \* the records appended to the TXT file
    ended_in_time, \* per profile, whether its worker ended without an error
                   \* while the timer was still waiting
    \* --- one worker, command by command (SpecCrawl)
    crawl_pc,      \* where _retry_crawl_user / crawl_user is
    crawl_attempt, \* the loop variable attempt of _retry_crawl_user
    scroll,        \* the locals of _scroll_and_collect
    crawl_outcome, \* how the latest crawl_user call ended
    failed_logged, \* the number of "Attempt k failed" errors logged
    crawl_returned, \* what _retry_crawl_user returned
    error_run,     \* how many iterations of the scroll loop in a row, up to
                   \* the latest, ended in an error (counted as far as
                   \* scroll_max_consecutive_errors)
    \* --- BrowserClient._execute_action (SpecClient)
    restart_count, \* BrowserClient.restart_count
    exec_pc,       \* where the current _execute_action call is
    exec_attempt,  \* the loop variable attempt of _execute_action
    exec_reply,    \* what the latest _execute_action call returned
    ran,           \* the CompletedProcess of the latest run of the command
    stops,         \* the number of "browser stop" commands issued
    starts,        \* the number of "browser start" commands issued
    action,        \* the action of the latest call
    cmd_target,    \* the target id the command of the latest call carries
    target_id,     \* BrowserClient.target_id
    nav_ok,        \* what the latest navigate returned
    call_runs,     \* how often the latest call has run its command
    call_restarts, \* how many recovery cycles the latest call has triggered
    recovery,      \* the latest recovery cycle of the call: steps and report
    \* --- ProcessLock and the craw-hot processes (SpecLock)
    inst,          \* per process, where it is
    lock_fd,       \* per process, the inode ProcessLock.lock_fd has open (0: none)
    lock_path,     \* the inode the lock file path names (0: no such file)
    inodes,        \* the number of lock file inodes created so far
    lock_content,  \* per inode, the pid written into it (0: empty)
    flock,         \* per inode, the process holding the flock on it (0: none)
    commanded,     \* per process, whether it has driven the browser
    \* --- one run over the profile list with the restart budget (SpecSession)
    sess_user,     \* the profile whose crawl_single_user is running
    sess_attempt,  \* the loop variable attempt of _retry_crawl_user
    sess_pc,       \* where crawl_user is
    sess_restarts, \* BrowserClient.restart_count
    sess_outcome,  \* how the latest crawl_user call ended
    sess_starts,   \* the number of "browser start" commands issued
    \* --- main(), crawl_all_users and save_markdown, one run (SpecMain)
    acquired,      \* what ProcessLock.acquire returns to CrawlHot.__init__
    surface,       \* whether the browser control surface answers
    argv,          \* sys.argv[1:]
    main_pc,       \* where main() is
    exit_code,     \* the exit code of the process (NoExit: still running)
    run_users,     \* len(users) of crawl_all_users
    run_results,   \* the entries of all_results, in insertion order
    run_txt,       \* what has been written to the TXT file, in order
    content,       \* the list content of save_markdown
    post_infos,    \* the list post_infos of save_markdown
    fetch_log,     \* the posts whose future the as_completed loop of
                   \* save_markdown has handled, in that order
    md_file,       \* what has been written to the Markdown file, per write
    \* --- TwitterApiClient.fetch_post, one call (SpecFetch)
    fetch_pc,      \* where fetch_post is
    fetch_url,     \* the argument url
    tweet_id,      \* the local tweet_id (NoId: None)
    fx_response,   \* what the fxtwitter request met (NoResponse: not asked)
    synd_response, \* what the syndication request met
    fx_calls,      \* the number of requests sent to api.fxtwitter.com
    synd_calls,    \* the number of requests sent to cdn.syndication.twimg.com
    fetch_result,  \* what fetch_post returned, or that it raised
    \* --- the extraction script of _get_scroll_js, one pass (SpecExtract)
    js_pc,         \* where the script is
    page,          \* the article elements of the document, in document order
    js_i,          \* the loop variable i (articles count from 1 here)
    js_result,     \* the array result
    \* --- BrowserClient._parse_output, one call (SpecParse)
    parse_pc,      \* where the call is
    output,        \* the lines of output.strip().split('\n')
    parsed,        \* what the call returned
    \* --- _restart_browser run by several threads (SpecRestart)
    thread_pc,     \* per thread, where it is in _restart_browser
    thread_read,   \* per thread, the restart_count it read for += 1
    shared_count   \* BrowserClient.restart_count of the shared client

supVars ==
    <<task, browser_lock, worker, attempt, outcome, result, timer, exception,
      returned, logged, all_results, aliased, completed_count, txt,
      ended_in_time>>

\* what only the steps of the scheduler's own thread and the return of
\* _retry_with_timeout change
fileVars == <<completed_count, txt>>

crawlVars ==
    <<crawl_pc, crawl_attempt, scroll, crawl_outcome, failed_logged,
      crawl_returned, error_run>>

clientVars ==
    <<restart_count, exec_pc, exec_attempt, exec_reply, ran, stops, starts,
      action, cmd_target, target_id, nav_ok, call_runs, call_restarts,
      recovery>>

lockVars ==
    <<inst, lock_fd, lock_path, inodes, lock_content, flock, commanded>>

sessVars ==
    <<sess_user, sess_attempt, sess_pc, sess_restarts, sess_outcome,
      sess_starts>>

mainVars ==
    <<acquired, surface, argv, main_pc, exit_code, run_users, run_results,
      run_txt, content, post_infos, fetch_log, md_file>>

fetchVars ==
    <<fetch_pc, fetch_url, tweet_id, fx_response, synd_response, fx_calls,
      synd_calls, fetch_result>>

jsVars == <<js_pc, page, js_i, js_result>>

parseVars == <<parse_pc, output, parsed>>

restartVars == <<thread_pc, thread_read, shared_count>>

vars ==
    <<supVars, crawlVars, clientVars, lockVars, sessVars, mainVars, fetchVars,
      jsVars, parseVars, restartVars>>

\* what each group of actions leaves alone
notSup ==
    <<crawlVars, clientVars, lockVars, sessVars, mainVars,
      fetchVars, jsVars, parseVars, restartVars>>

notCrawl ==
    <<supVars, clientVars, lockVars, sessVars, mainVars,
      fetchVars, jsVars, parseVars, restartVars>>

notClient ==
    <<supVars, crawlVars, lockVars, sessVars, mainVars,
      fetchVars, jsVars, parseVars, restartVars>>

notLock ==
    <<supVars, crawlVars, clientVars, sessVars, mainVars,
      fetchVars, jsVars, parseVars, restartVars>>

notSess ==
    <<supVars, crawlVars, clientVars, lockVars, mainVars,
      fetchVars, jsVars, parseVars, restartVars>>

notMain ==
    <<supVars, crawlVars, clientVars, lockVars, sessVars, fetchVars, jsVars,
      parseVars, restartVars>>

notFetch ==
    <<supVars, crawlVars, clientVars, lockVars, sessVars, mainVars, jsVars,
      parseVars, restartVars>>

notJs ==
    <<supVars, crawlVars, clientVars, lockVars, sessVars, mainVars, fetchVars,
      parseVars, restartVars>>

notParse ==
    <<supVars, crawlVars, clientVars, lockVars, sessVars, mainVars, fetchVars,
      jsVars, restartVars>>

notRestart ==
    <<supVars, crawlVars, clientVars, lockVars, sessVars, mainVars, fetchVars,
      jsVars, parseVars>>

----------------------------------------------------------------------------
(* CrawlHot.crawl_all_users: the pool tasks (crawl_single_user), the       *)
(* browser_lock, the worker thread and the timeout timer of                *)
(* _retry_with_timeout, the retry loop of _retry_crawl_user                *)

SupInit ==
    /\ task = [u \in Users |-> "queued"]
    /\ browser_lock = {}
    /\ worker = [u \in Users |-> "unstarted"]
    /\ attempt = [u \in Users |-> 0]
    /\ outcome = [u \in Users |-> None]
    /\ result = [u \in Users |-> <<>>]
    /\ timer = [u \in Users |-> "unset"]
    /\ exception = [u \in Users |-> None]
    /\ returned = [u \in Users |-> <<>>]
    /\ logged = [u \in Users |-> None]
    /\ all_results = <<>>
    /\ aliased = [u \in Users |-> FALSE]
    /\ completed_count = 0
    /\ txt = <<>>
    /\ ended_in_time = [u \in Users |-> FALSE]

\* the tasks the pool threads have taken: ThreadPoolExecutor hands the
\* submitted tasks out in order, one to each of its user_crawl_workers
\* threads, and the next one whenever a task returns
Taken(u) ==
    Cardinality({v \in Users : v < u /\ task[v] \in {"queued", "join", "check"}})
        < user_crawl_workers

\* a pool thread runs crawl_single_user: with self.browser_lock entered;
\* thread.start(); timer.start(); the worker enters _retry_crawl_user and
\* its first attempt
Acquire(u) ==
    /\ task[u] = "queued"
    /\ Taken(u)
    /\ browser_lock = {}
    /\ browser_lock' = {u}
    /\ task' = [task EXCEPT ![u] = "join"]
    /\ worker' = [worker EXCEPT ![u] = "crawl"]
    /\ attempt' = [attempt EXCEPT ![u] = 1]
    /\ outcome' = [outcome EXCEPT ![u] = "running"]
    /\ timer' = [timer EXCEPT ![u] = "armed"]
    /\ UNCHANGED <<result, exception, returned, logged, all_results, aliased>>
    /\ UNCHANGED fileVars
    /\ UNCHANGED ended_in_time
    /\ UNCHANGED notSup

\* what a holder of a returned list sees once `result` has been extended:
\* the extended list if it holds `result` itself, else what it held
Seen(alias, extended, held) == IF alias THEN extended ELSE held

\* crawl_user of the current attempt ends; _retry_crawl_user returns the
\* URLs, returns [] on NoPostsFoundError, and on any other exception sleeps
\* and retries or, after the last attempt, returns []; _worker extends result
\* by what it returned (the loop counter is a local, gone on return)
AttemptEnds(u) ==
    /\ worker[u] = "crawl"
    /\ \E o \in SupervisedOutcomes :
        /\ outcome' = [outcome EXCEPT ![u] = o.kind]
        /\ worker' = [worker EXCEPT ![u] = AfterAttempt(attempt[u], o.kind)]
        /\ IF AfterAttempt(attempt[u], o.kind) = "backoff"
           THEN UNCHANGED <<attempt, result>>
           ELSE /\ attempt' = [attempt EXCEPT ![u] = 0]
                /\ result' = [result EXCEPT ![u] = @ \o o.urls]
    /\ returned' = [returned EXCEPT ![u] = Seen(aliased[u], result'[u], @)]
    /\ all_results' = [i \in DOMAIN all_results |->
           IF all_results[i][1] = u
           THEN <<u, Seen(aliased[u], result'[u], all_results[i][2])>>
           ELSE all_results[i]]
    /\ ended_in_time' = [ended_in_time EXCEPT ![u] =
           /\ worker'[u] = "done"
           /\ outcome'[u] # "Exception"
           /\ timer[u] = "armed"
           /\ exception[u] = None]
    /\ UNCHANGED <<task, browser_lock, timer, exception, logged, aliased>>
    /\ UNCHANGED fileVars
    /\ UNCHANGED notSup

\* time.sleep(wait_time) ends; the next attempt starts
BackoffEnds(u) ==
    /\ worker[u] = "backoff"
    /\ worker' = [worker EXCEPT ![u] = "crawl"]
    /\ attempt' = [attempt EXCEPT ![u] = @ + 1]
    /\ outcome' = [outcome EXCEPT ![u] = "running"]
    /\ UNCHANGED <<task, browser_lock, result, timer, exception,
                   returned, logged, all_results, aliased>>
    /\ UNCHANGED fileVars
    /\ UNCHANGED ended_in_time
    /\ UNCHANGED notSup

\* threading.Timer.run: the wait of `timeout` seconds ends uncancelled
TimerExpire(u) ==
    /\ timer[u] = "armed"
    /\ timer' = [timer EXCEPT ![u] = "expired"]
    /\ UNCHANGED <<task, browser_lock, worker, attempt, outcome, result,
                   exception, returned, logged, all_results, aliased>>
    /\ UNCHANGED fileVars
    /\ UNCHANGED ended_in_time
    /\ UNCHANGED notSup

\* _timeout_handler
TimerRun(u) ==
    /\ timer[u] = "expired"
    /\ timer' = [timer EXCEPT ![u] = "fired"]
    /\ exception' = [exception EXCEPT ![u] = "CrawlTimeoutError"]
    /\ UNCHANGED <<task, browser_lock, worker, attempt, outcome, result,
                   returned, logged, all_results, aliased>>
    /\ UNCHANGED fileVars
    /\ UNCHANGED ended_in_time
    /\ UNCHANGED notSup

\* timer.cancel(): stops a timer that is still waiting
Cancel(stage) == IF stage = "armed" THEN "cancelled" ELSE stage

\* thread.join(timeout + 5) returns, because the worker ended or because the
\* timeout + 5 seconds passed (the timer ran 5 seconds earlier); timer.cancel()
JoinCancel(u) ==
    /\ task[u] = "join"
    /\ worker[u] = "done" \/ timer[u] = "fired"
    /\ task' = [task EXCEPT ![u] = "check"]
    /\ timer' = [timer EXCEPT ![u] = Cancel(@)]
    /\ UNCHANGED <<browser_lock, worker, attempt, outcome, result, exception,
                   returned, logged, all_results, aliased>>
    /\ UNCHANGED fileVars
    /\ UNCHANGED ended_in_time
    /\ UNCHANGED notSup

\* a faulty supervisor that returns the result whatever the error slot holds
ReturnValueKeepsResult(exc, res) == res

\* a faulty supervisor that returns `result` whatever the error slot holds
ReturnsResultAlways(exc) == TRUE

\* whether `return result` is reached: not `if exception[0]`
ReturnsResult(exc) == exc = None

\* if exception[0]: log it, return []; else return result
ReturnValue(exc, res) == IF ReturnsResult(exc) THEN res ELSE <<>>

\* a faulty supervisor that never leaves the with block
ReleaseNever(holders, u) == holders

\* leaving `with self.browser_lock`
Release(holders, u) == holders \ {u}

\* _retry_with_timeout returns and crawl_single_user leaves the with block
Return(u) ==
    /\ task[u] = "check"
    /\ task' = [task EXCEPT ![u] = "returned"]
    /\ returned' = [returned EXCEPT ![u] = ReturnValue(exception[u], result[u])]
    /\ logged' = [logged EXCEPT ![u] = exception[u]]
    /\ browser_lock' = Release(browser_lock, u)
    /\ aliased' = [aliased EXCEPT ![u] = ReturnsResult(exception[u])]
    /\ UNCHANGED <<worker, attempt, outcome, result, timer, exception, all_results>>
    /\ UNCHANGED fileVars
    /\ UNCHANGED ended_in_time
    /\ UNCHANGED notSup

\* a faulty scheduler that does not count the completed profiles
NextCountStuck(count) == count

\* completed_count += 1
NextCount(count) == count + 1

\* append_user_results: the header line "# @user (n posts) - [current/total]"
\* and the URLs as they are when the record is written
TxtRecord(u, urls, current, total) ==
    [user |-> u, urls |-> urls, current |-> current, total |-> total]

\* the as_completed loop of crawl_all_users takes a finished future:
\* completed_count += 1; all_results[user] = urls; append_user_results
Collect(u) ==
    /\ task[u] = "returned"
    /\ task' = [task EXCEPT ![u] = "collected"]
    /\ completed_count' = NextCount(completed_count)
    /\ all_results' = Append(all_results, <<u, returned[u]>>)
    /\ txt' = Append(txt, TxtRecord(u, returned[u], completed_count',
                                    Cardinality(Users)))
    /\ UNCHANGED <<browser_lock, worker, attempt, outcome, result, timer,
                   exception, returned, logged, aliased>>
    /\ UNCHANGED ended_in_time
    /\ UNCHANGED notSup

SupNext ==
    \E u \in Users :
        \/ Acquire(u)
        \/ AttemptEnds(u)
        \/ BackoffEnds(u)
        \/ TimerExpire(u)
        \/ TimerRun(u)
        \/ JoinCancel(u)
        \/ Return(u)
        \/ Collect(u)

----------------------------------------------------------------------------
(* One worker: _retry_crawl_user, crawl_user and _scroll_and_collect,      *)
(* one browser command (or one scroll iteration) per step                  *)

CrawlInit ==
    /\ crawl_pc = "ensure"
    /\ crawl_attempt = 1
    /\ scroll = ScrollStart
    /\ crawl_outcome = None
    /\ failed_logged = 0
    /\ crawl_returned = <<>>
    /\ error_run = 0

\* crawl_user ended as outcome o: the except clauses and the end of the
\* loop body of _retry_crawl_user
EndAttempt(o) ==
    /\ crawl_outcome' = o.kind
    /\ crawl_pc' = AfterAttempt(crawl_attempt, o.kind)
    /\ failed_logged' = IF o.kind = "Exception" THEN failed_logged + 1
                        ELSE failed_logged
    /\ crawl_returned' = o.urls
    /\ UNCHANGED crawl_attempt

\* self.browser.ensure_available()
EnsureAvailable ==
    /\ crawl_pc = "ensure"
    /\ \E available \in BOOLEAN :
        IF available
        THEN /\ crawl_pc' = "navigate"
             /\ UNCHANGED <<crawl_attempt, crawl_outcome, failed_logged,
                            crawl_returned>>
        ELSE EndAttempt(Raised("Exception"))
    /\ UNCHANGED <<scroll, error_run>>
    /\ UNCHANGED notCrawl

\* self.browser.navigate(...)
Navigate ==
    /\ crawl_pc = "navigate"
    /\ \E navigated \in BOOLEAN :
        IF navigated
        THEN /\ crawl_pc' = "wait"
             /\ UNCHANGED <<crawl_attempt, crawl_outcome, failed_logged,
                            crawl_returned>>
        ELSE EndAttempt(Raised("Exception"))
    /\ UNCHANGED <<scroll, error_run>>
    /\ UNCHANGED notCrawl

\* self.browser.wait_for_content_loaded(...): loaded or not, the scroll
\* loop starts
WaitForContent ==
    /\ crawl_pc = "wait"
    /\ crawl_pc' = "scroll"
    /\ UNCHANGED <<crawl_attempt, scroll, crawl_outcome, failed_logged,
                   crawl_returned, error_run>>
    /\ UNCHANGED notCrawl

\* one iteration of _scroll_and_collect; the iteration that leaves the loop
\* also ends crawl_user
ScrollIteration ==
    /\ crawl_pc = "scroll"
    /\ \E reply \in EvaluateReplies :
        /\ scroll' = ScrollIter(scroll, reply)
        /\ error_run' = IF reply.kind = "list" THEN 0
                        ELSE IF error_run < scroll_max_consecutive_errors
                        THEN error_run + 1
                        ELSE error_run
        /\ IF scroll'.exit = "running"
           THEN UNCHANGED <<crawl_pc, crawl_attempt, crawl_outcome,
                            failed_logged, crawl_returned>>
           ELSE EndAttempt(CrawlUserResult(scroll'))
    /\ UNCHANGED notCrawl

\* time.sleep(wait_time), then the next attempt (the locals of the scroll
\* loop of the attempt before are gone)
Backoff ==
    /\ crawl_pc = "backoff"
    /\ crawl_pc' = "ensure"
    /\ crawl_attempt' = crawl_attempt + 1
    /\ scroll' = ScrollStart
    /\ error_run' = 0
    /\ UNCHANGED <<crawl_outcome, failed_logged, crawl_returned>>
    /\ UNCHANGED notCrawl

CrawlNext ==
    \/ EnsureAvailable
    \/ Navigate
    \/ WaitForContent
    \/ ScrollIteration
    \/ Backoff

----------------------------------------------------------------------------
(* BrowserClient._parse_output and _check_tab_not_found as functions of    *)
(* the text a command prints. A line of stdout is one of:                  *)
(*   "debug"       a line starting with one of the box characters          *)
(*   "blank"       an empty line                                           *)
(*   "text"        any other line that is no payload                       *)
(*   "text_tnf"    such a line holding "Tab Not Found"                     *)
(*   "true"        the line true (or false)                                *)
(*   "int"         a line of digits, e.g. 42                               *)
(*   "baddigit"    a line like --5: digits once the dashes are stripped    *)
(*   "dict_target" {"ok": true, "targetId": "T"}                           *)
(*   "dict_result" {"ok": true, "result": [...]}                           *)
(*   "dict_not_ok" {"ok": false, "targetId": "T"}                          *)
(*   "str"  "..."       "list"  [...]                                      *)
(*   "open"  {          "close"  }     (together the object {})            *)

LineKinds ==
    {"debug", "blank", "text", "text_tnf", "true", "int", "baddigit",
     "dict_target", "dict_result", "dict_not_ok", "str", "list",
     "open", "close"}

\* what follows stdout.strip().split('\n'): no blank line at either end
\* (the empty output gives the one empty line)
Stripped(lines) ==
    IF lines = <<>> THEN <<"blank">> ELSE lines

Outputs ==
    {Stripped(l) : l \in {m \in SeqsUpTo(LineKinds, MaxLines) :
        m = <<>> \/ (Head(m) # "blank" /\ m[Len(m)] # "blank")}}

\* stderr of a command
StderrTexts == {"", "error: tab not found", "Error: Tab Not Found"}

\* str.lower()
Lower(text) ==
    IF text = "Error: Tab Not Found" THEN "error: tab not found" ELSE text

\* "tab not found" in (result.stderr + result.stdout).lower()
CheckTabNotFound(stderr, lines) ==
    \/ Lower(stderr) = "error: tab not found"
    \/ \E i \in 1..Len(lines) : lines[i] = "text_tnf"

\* a JSON value: its type and, of an object, its ok, targetId and result
\* members (None: no such member)
JsonValue(t, ok, targetId, res) ==
    [t |-> t, ok |-> ok, targetId |-> targetId, result |-> res]

Invalid == JsonValue("invalid", None, None, None)

\* the value of a line that is a JSON document by itself
DocValue(kind) ==
    CASE kind = "dict_target" -> JsonValue("dict", "true", "T", None)
      [] kind = "dict_result" -> JsonValue("dict", "true", None, "list")
      [] kind = "dict_not_ok" -> JsonValue("dict", "false", "T", None)
      [] kind = "str" -> JsonValue("str", None, None, None)
      [] kind = "list" -> JsonValue("list", None, None, None)
      [] OTHER -> Invalid

AllBlank(lines) == \A i \in 1..Len(lines) : lines[i] = "blank"

\* json.loads of the lines joined by '\n': a document, or { ... } with
\* nothing but white space inside, each with white space after it; anything
\* else raises JSONDecodeError
JsonLoads(lines) ==
    IF lines = <<>>
    THEN Invalid
    ELSE IF DocValue(Head(lines)) # Invalid
    THEN IF AllBlank(Tail(lines)) THEN DocValue(Head(lines)) ELSE Invalid
    ELSE IF /\ Head(lines) = "open"
            /\ \E j \in 2..Len(lines) :
                  /\ lines[j] = "close"
                  /\ AllBlank(SubSeq(lines, 2, j - 1))
                  /\ AllBlank(SubSeq(lines, j + 1, Len(lines)))
    THEN JsonValue("dict", None, None, None)
    ELSE Invalid

\* what _parse_output and _execute_action give: a reply {"ok": True, ...}
\* with its targetId and the type of its result, None, or an exception
PyValue(py, targetId, res) == [py |-> py, targetId |-> targetId, result |-> res]

Reply(targetId, res) == PyValue("dict", targetId, res)

PyNone == PyValue("None", None, None)

ValueError == PyValue("ValueError", None, None)

\* lines 228-236 and 244-252: the reply made of a decoded value
ReplyOf(response) ==
    IF response.t = "str"
    THEN Reply(None, "str")
    ELSE IF response.t = "dict"
    THEN IF response.ok = "true"
         THEN Reply(response.targetId, response.result)
         ELSE Reply(None, response.result)
    ELSE Reply(None, response.t)

\* line 206: the line starts with {, " or [
StartsPayload(kind) ==
    kind \in {"dict_target", "dict_result", "dict_not_ok", "str", "list", "open"}

\* lines 198-218, from line i on: where the JSON starts, or the reply made
\* of a scalar line, or the ValueError of int()
RECURSIVE Scan(_, _)
Scan(lines, i) ==
    IF i > Len(lines)
    THEN [at |-> 0, out |-> PyNone]
    ELSE IF lines[i] = "debug"
    THEN Scan(lines, i + 1)
    ELSE IF StartsPayload(lines[i])
    THEN [at |-> i, out |-> PyNone]
    ELSE IF lines[i] = "true"
    THEN [at |-> 0, out |-> Reply(None, "bool")]
    ELSE IF lines[i] = "int"
    THEN [at |-> 0, out |-> Reply(None, "int")]
    ELSE IF lines[i] = "baddigit"
    THEN [at |-> 0, out |-> ValueError]
    ELSE Scan(lines, i + 1)

\* lines 222-255: the lines from json_start are merged one by one, the text
\* is decoded after every line added, and once more after the last one
RECURSIVE Merge(_, _, _)
Merge(lines, start, j) ==
    IF j > Len(lines)
    THEN JsonLoads(SubSeq(lines, start, Len(lines)))
    ELSE IF JsonLoads(SubSeq(lines, start, j)) # Invalid
    THEN JsonLoads(SubSeq(lines, start, j))
    ELSE Merge(lines, start, j + 1)

\* the JSON value _parse_output decodes (Invalid: none)
Decoded(lines) ==
    IF Scan(lines, 1).at = 0
    THEN Invalid
    ELSE Merge(lines, Scan(lines, 1).at, Scan(lines, 1).at + 1)

\* _parse_output: a reply, None, or the ValueError it raises
ParseOutput(lines) ==
    IF Scan(lines, 1).at = 0
    THEN Scan(lines, 1).out
    ELSE IF Decoded(lines) = Invalid
    THEN PyNone
    ELSE ReplyOf(Decoded(lines))

\* the output holds a payload: a scalar line, or consecutive lines that are
\* a JSON document
HasPayload(lines) ==
    \/ \E i \in 1..Len(lines) : lines[i] \in {"true", "int"}
    \/ \E i \in 1..Len(lines), j \in 1..Len(lines) :
          i <= j /\ JsonLoads(SubSeq(lines, i, j)) # Invalid

\* the first run of consecutive lines from `start` on that is a JSON
\* document, as the number of its last line (0: there is none)
RECURSIVE ShortestRun(_, _, _)
ShortestRun(lines, start, j) ==
    IF j > Len(lines)
    THEN 0
    ELSE IF JsonLoads(SubSeq(lines, start, j)) # Invalid
    THEN j
    ELSE ShortestRun(lines, start, j + 1)

ParseInit ==
    /\ parse_pc = "idle"
    /\ output = <<"blank">>
    /\ parsed = PyNone

\* _execute_action calls _parse_output(result.stdout)
ParseCall ==
    /\ parse_pc \in {"idle", "returned"}
    /\ \E l \in Outputs : output' = l
    /\ parse_pc' = "called"
    /\ parsed' = PyNone
    /\ UNCHANGED notParse

\* _parse_output returns (or raises the ValueError of int())
ParseReturn ==
    /\ parse_pc = "called"
    /\ parsed' = ParseOutput(output)
    /\ parse_pc' = "returned"
    /\ UNCHANGED output
    /\ UNCHANGED notParse

ParseNext ==
    \/ ParseCall
    \/ ParseReturn

----------------------------------------------------------------------------
(* BrowserClient: navigate, evaluate, press, _execute_action and           *)
(* _restart_browser, one subprocess run per step                           *)

\* subprocess.run raised TimeoutExpired
TimeoutExpired ==
    [kind |-> "TimeoutExpired", returncode |-> 1, tab_not_found |-> FALSE,
     payload |-> FALSE, response |-> Invalid, parsed |-> PyNone]

\* the CompletedProcess of a command that exits with rc and prints stderr
\* and the lines of stdout, as _execute_action reads it: the return code,
\* _check_tab_not_found and _parse_output (with the JSON value it decoded,
\* and whether stdout holds a payload at all)
Completed(rc, stderr, lines) ==
    [kind |-> "CompletedProcess", returncode |-> rc,
     tab_not_found |-> CheckTabNotFound(stderr, lines),
     payload |-> HasPayload(lines), response |-> Decoded(lines),
     parsed |-> ParseOutput(lines)]

\* what a run of the command gives
CommandResults ==
    {Completed(rc, e, l) : rc \in {0, 1}, e \in StderrTexts, l \in Outputs}
    \cup {TimeoutExpired}

\* no command has been run yet
NoRun ==
    [kind |-> "NoRun", returncode |-> 0, tab_not_found |-> FALSE,
     payload |-> FALSE, response |-> Invalid, parsed |-> PyNone]

\* target_id and the --target-id of a command when there is none
NoTarget == -1

\* the calls crawl_user and _scroll_and_collect make
Actions == {"navigate", "evaluate", "press"}

\* no status command has been run
NoStatus == [kind |-> "none", returncode |-> 0, enabled |-> FALSE]

\* what "openclaw browser status" gives: it ends with an exit code, with or
\* without "enabled: true" in its output, or the run raises
StatusResults ==
    [kind : {"completed"}, returncode : {0, 1}, enabled : BOOLEAN]
    \cup {[kind |-> "raised", returncode |-> 0, enabled |-> FALSE]}

\* a faulty check_status that does not look at the exit code
CheckStatusAnyExit(r) == r.kind = "completed" /\ r.enabled

\* check_status: exit code 0 and "enabled: true" in stdout; False when the
\* run raised
CheckStatus(r) == r.kind = "completed" /\ r.returncode = 0 /\ r.enabled

\* no recovery cycle has been entered by the call
NoCycle ==
    [steps |-> <<>>, status |-> NoStatus, error |-> FALSE, reported |-> "none"]

\* _restart_browser, except clause: a step raised, the cycle returns False
StepRaised(cycle) == [cycle EXCEPT !.error = TRUE, !.reported = "failure"]

\* _restart_browser issues its next command
StepIssued(cycle, step) == [cycle EXCEPT !.steps = Append(@, step)]

ClientInit ==
    /\ restart_count = 0
    /\ exec_pc = "idle"
    /\ exec_attempt = 0
    /\ exec_reply = PyNone
    /\ ran = NoRun
    /\ stops = 0
    /\ starts = 0
    /\ action = None
    /\ cmd_target = NoTarget
    /\ target_id = NoTarget
    /\ nav_ok = FALSE
    /\ call_runs = 0
    /\ call_restarts = 0
    /\ recovery = NoCycle

\* _restart_browser, first lines: the restart budget is used up
BudgetExhausted(count) == count >= browser_max_restarts

\* a faulty loop that enters the recovery on every attempt
MayRecoverAlways(a) == TRUE

\* _execute_action: the recovery is entered before the last attempt only
MayRecover(a) == a < browser_action_max_attempts

\* the target id of a tab: the tabs of a browser are gone with the recovery
\* cycle that stops it, so a target id is named by the number of recovery
\* cycles triggered before the tab was opened
TabOpened(reply, count) ==
    IF reply.targetId = None THEN NoTarget ELSE count

\* a faulty _execute_action without its except clauses
CaughtNothing(value) == value

\* _execute_action, except clauses: an exception raised in the try block
\* is logged and None is returned
Caught(value) == IF value.py = "dict" THEN value ELSE PyNone

\* _execute_action returns `value`, and the caller goes on: navigate keeps
\* the targetId of a reply and returns True, or returns False
ExecReturn(value) ==
    LET reply == Caught(value)
    IN  /\ exec_pc' = "idle"
        /\ exec_attempt' = 0
        /\ exec_reply' = reply
        /\ IF action = "navigate"
           THEN /\ nav_ok' = (reply # PyNone)
                /\ target_id' = IF reply # PyNone
                                THEN TabOpened(reply, restart_count)
                                ELSE target_id
           ELSE UNCHANGED <<nav_ok, target_id>>

\* crawl_user calls navigate; after a navigate that returned True,
\* wait_for_content_loaded and _scroll_and_collect call evaluate and press;
\* the call enters _execute_action with its command (nothing is returned yet)
Call ==
    /\ exec_pc = "idle"
    /\ \E a \in Actions :
        /\ a # "navigate" => nav_ok
        /\ a = "evaluate" => target_id # NoTarget
        /\ action' = a
        /\ cmd_target' = IF a = "evaluate" THEN target_id ELSE NoTarget
    /\ exec_pc' = "run"
    /\ exec_attempt' = 1
    /\ exec_reply' = PyNone
    /\ call_runs' = 0
    /\ call_restarts' = 0
    /\ recovery' = NoCycle
    /\ UNCHANGED <<restart_count, ran, stops, starts, target_id, nav_ok>>
    /\ UNCHANGED notClient

\* evaluate without a target id: None, and no command is run
EvaluateNoTarget ==
    /\ exec_pc = "idle"
    /\ nav_ok
    /\ target_id = NoTarget
    /\ action' = "evaluate"
    /\ exec_reply' = PyNone
    /\ call_runs' = 0
    /\ call_restarts' = 0
    /\ recovery' = NoCycle
    /\ UNCHANGED <<restart_count, exec_pc, exec_attempt, ran, stops, starts,
                   cmd_target, target_id, nav_ok>>
    /\ UNCHANGED notClient

\* _run_command: the command of the call is run and ends or times out
RunCommand ==
    /\ exec_pc = "run"
    /\ \E r \in CommandResults : ran' = r
    /\ exec_pc' = "ran"
    /\ call_runs' = call_runs + 1
    /\ recovery' = NoCycle
    /\ UNCHANGED <<restart_count, exec_attempt, exec_reply, stops, starts,
                   action, cmd_target, target_id, nav_ok, call_restarts>>
    /\ UNCHANGED notClient

\* the rest of the pass of the loop of _execute_action: on tab-not-found
\* before the last attempt _restart_browser is entered, which gives up at
\* once or counts the restart and issues the stop command; otherwise the
\* return code decides (the result of the run is not read again)
HandleResult ==
    /\ exec_pc = "ran"
    /\ IF ran.kind = "TimeoutExpired"
       THEN ExecReturn(PyNone) /\ UNCHANGED <<restart_count, stops, call_restarts, recovery>>
       ELSE IF ran.tab_not_found /\ MayRecover(exec_attempt)
       THEN IF BudgetExhausted(restart_count)
            THEN ExecReturn(PyNone) /\ UNCHANGED <<restart_count, stops, call_restarts, recovery>>
            ELSE /\ restart_count' = restart_count + 1
                 /\ call_restarts' = call_restarts + 1
                 /\ stops' = stops + 1
                 /\ recovery' = StepIssued(NoCycle, "stop")
                 /\ exec_pc' = "stop"
                 /\ UNCHANGED <<exec_attempt, exec_reply, nav_ok, target_id>>
       ELSE IF ran.returncode = 0
       THEN ExecReturn(ran.parsed) /\ UNCHANGED <<restart_count, stops, call_restarts, recovery>>
       ELSE ExecReturn(PyNone) /\ UNCHANGED <<restart_count, stops, call_restarts, recovery>>
    /\ ran' = NoRun
    /\ UNCHANGED <<starts, action, cmd_target, call_runs>>
    /\ UNCHANGED notClient

\* "openclaw browser stop" ends: the start command is issued, unless the run
\* raised (then _restart_browser returns False and the call returns None)
StopDone ==
    /\ exec_pc = "stop"
    /\ \E raised \in BOOLEAN :
        IF raised
        THEN /\ ExecReturn(PyNone)
             /\ recovery' = StepRaised(recovery)
             /\ UNCHANGED starts
        ELSE /\ exec_pc' = "start"
             /\ starts' = starts + 1
             /\ recovery' = StepIssued(recovery, "start")
             /\ UNCHANGED <<exec_attempt, exec_reply, nav_ok, target_id>>
    /\ UNCHANGED <<restart_count, ran, stops, action, cmd_target, call_runs,
                   call_restarts>>
    /\ UNCHANGED notClient

\* "openclaw browser start" ends: check_status follows, unless the run raised
StartDone ==
    /\ exec_pc = "start"
    /\ \E raised \in BOOLEAN :
        IF raised
        THEN ExecReturn(PyNone) /\ recovery' = StepRaised(recovery)
        ELSE /\ exec_pc' = "status"
             /\ recovery' = StepIssued(recovery, "status")
             /\ UNCHANGED <<exec_attempt, exec_reply, nav_ok, target_id>>
    /\ UNCHANGED <<restart_count, ran, stops, starts, action, cmd_target,
                   call_runs, call_restarts>>
    /\ UNCHANGED notClient

\* check_status ends: on success the loop of _execute_action continues with
\* the next attempt if there is one (the same command again), otherwise the
\* call returns None
StatusDone ==
    /\ exec_pc = "status"
    /\ \E r \in StatusResults :
        /\ recovery' = [recovery EXCEPT
                           !.status = r,
                           !.error = (r.kind = "raised"),
                           !.reported = IF CheckStatus(r) THEN "success"
                                        ELSE "failure"]
        /\ IF CheckStatus(r) /\ exec_attempt < browser_action_max_attempts
           THEN /\ exec_pc' = "run"
                /\ exec_attempt' = exec_attempt + 1
                /\ UNCHANGED <<exec_reply, nav_ok, target_id>>
           ELSE ExecReturn(PyNone)
    /\ UNCHANGED <<restart_count, ran, stops, starts, action, cmd_target,
                   call_runs, call_restarts>>
    /\ UNCHANGED notClient

ClientNext ==
    \/ Call
    \/ EvaluateNoTarget
    \/ RunCommand
    \/ HandleResult
    \/ StopDone
    \/ StartDone
    \/ StatusDone

----------------------------------------------------------------------------
(* ProcessLock, CrawlHot.__init__ / __del__ and main: the craw-hot         *)
(* processes and the lock file, one system call group per step             *)

LockInit ==
    /\ inst = [i \in Instances |-> "start"]
    /\ lock_fd = [i \in Instances |-> 0]
    /\ lock_path = 0
    /\ inodes = 0
    /\ lock_content = [n \in Instances |-> 0]
    /\ flock = [n \in Instances |-> 0]
    /\ commanded = [i \in Instances |-> FALSE]

\* acquire: open(self.lock_file, 'w') creates the file or truncates it
Open(i) ==
    /\ inst[i] = "start"
    /\ inst' = [inst EXCEPT ![i] = "opened"]
    /\ IF lock_path = 0
       THEN /\ inodes' = inodes + 1
            /\ lock_path' = inodes + 1
            /\ lock_fd' = [lock_fd EXCEPT ![i] = inodes + 1]
            /\ lock_content' = [lock_content EXCEPT ![inodes + 1] = 0]
       ELSE /\ lock_fd' = [lock_fd EXCEPT ![i] = lock_path]
            /\ lock_content' = [lock_content EXCEPT ![lock_path] = 0]
            /\ UNCHANGED <<inodes, lock_path>>
    /\ UNCHANGED <<flock, commanded>>
    /\ UNCHANGED notLock

\* acquire: flock(LOCK_EX | LOCK_NB); on success the pid is written and
\* CrawlHot.__init__ goes on, otherwise acquire returns False and
\* CrawlHot.__init__ calls sys.exit(1)
Flock(i) ==
    /\ inst[i] = "opened"
    /\ IF flock[lock_fd[i]] = 0
       THEN /\ flock' = [flock EXCEPT ![lock_fd[i]] = i]
            /\ lock_content' = [lock_content EXCEPT ![lock_fd[i]] = i]
            /\ inst' = [inst EXCEPT ![i] = "running"]
       ELSE /\ inst' = [inst EXCEPT ![i] = "failed"]
            /\ UNCHANGED <<flock, lock_content>>
    /\ UNCHANGED <<lock_fd, lock_path, inodes, commanded>>
    /\ UNCHANGED notLock

\* main runs the command of an initialised CrawlHot: it drives the browser
Command(i) ==
    /\ inst[i] = "running"
    /\ ~commanded[i]
    /\ commanded' = [commanded EXCEPT ![i] = TRUE]
    /\ UNCHANGED <<inst, lock_fd, lock_path, inodes, lock_content, flock>>
    /\ UNCHANGED notLock

\* release, first half: flock(LOCK_UN), close, lock_fd = None
Unlocked(locks, i) == [n \in Instances |-> IF locks[n] = i THEN 0 ELSE locks[n]]

\* release, second half: the lock file is unlinked if the path exists
Unlinked(path) == 0

\* main, finally: crawler.lock.release(), up to the close of the file
FinallyUnlock(i) ==
    /\ inst[i] = "running"
    /\ inst' = [inst EXCEPT ![i] = "unlocked"]
    /\ flock' = Unlocked(flock, i)
    /\ lock_fd' = [lock_fd EXCEPT ![i] = 0]
    /\ UNCHANGED <<lock_path, inodes, lock_content, commanded>>
    /\ UNCHANGED notLock

\* main, finally: crawler.lock.release(), the unlink
FinallyUnlink(i) ==
    /\ inst[i] = "unlocked"
    /\ inst' = [inst EXCEPT ![i] = "released"]
    /\ lock_path' = Unlinked(lock_path)
    /\ UNCHANGED <<lock_fd, inodes, lock_content, flock, commanded>>
    /\ UNCHANGED notLock

\* the process ends and CrawlHot.__del__ calls self.lock.release(): of a
\* process that released in main, and of one whose __init__ called sys.exit
Del(i) ==
    /\ inst[i] \in {"released", "failed"}
    /\ inst' = [inst EXCEPT ![i] = IF inst[i] = "failed" THEN "exited_failed"
                                   ELSE "exited"]
    /\ flock' = Unlocked(flock, i)
    /\ lock_fd' = [lock_fd EXCEPT ![i] = 0]
    /\ lock_path' = Unlinked(lock_path)
    /\ UNCHANGED <<inodes, lock_content, commanded>>
    /\ UNCHANGED notLock

LockNext ==
    \E i \in Instances :
        \/ Open(i)
        \/ Flock(i)
        \/ Command(i)
        \/ FinallyUnlock(i)
        \/ FinallyUnlink(i)
        \/ Del(i)

----------------------------------------------------------------------------
(* One run over the profile list, with the restart budget of the shared    *)
(* BrowserClient: crawl_all_users, crawl_single_user, _retry_crawl_user    *)
(* and crawl_user, one phase of crawl_user per step (no timeout strikes,   *)
(* so browser_lock lets one profile run after the other)                    *)

SessInit ==
    /\ sess_user = 1
    /\ sess_attempt = 1
    /\ sess_pc = "ensure"
    /\ sess_restarts = 0
    /\ sess_outcome = None
    /\ sess_starts = 0

\* the recoveries a phase of k command calls can trigger: every call at most
\* one, and none once restart_count has reached browser_max_restarts
Recoveries(count, calls) ==
    {k \in 0..calls : count + k <= browser_max_restarts}

\* crawl_user ended as `kind`: _retry_crawl_user sleeps and retries, or
\* returns, and then the pool runs crawl_single_user of the next profile
SessEndAttempt(kind) ==
    /\ sess_outcome' = kind
    /\ IF AfterAttempt(sess_attempt, kind) = "backoff"
       THEN /\ sess_pc' = "backoff"
            /\ UNCHANGED <<sess_user, sess_attempt>>
       ELSE /\ sess_pc' = IF sess_user < MaxUsers THEN "ensure" ELSE "end"
            /\ sess_user' = sess_user + 1
            /\ sess_attempt' = 1

\* the start commands k recovery cycles issue: one each, none by a cycle
\* whose stop command raised
CycleStarts(k) == 0..k

\* a faulty ensure_available that only reads the status
EnsureStartsNever(enabled) == 0

\* ensure_available: the start command is issued when the first
\* check_status finds the browser not enabled
EnsureStarts(enabled) == IF enabled THEN 0 ELSE 1

\* ensure_available: status, and start + status if needed (no recovery
\* cycle: restart_count is neither read nor written)
SessEnsure ==
    /\ sess_pc = "ensure"
    /\ \E enabled \in BOOLEAN, then_enabled \in BOOLEAN :
        /\ sess_starts' = sess_starts + EnsureStarts(enabled)
        /\ IF enabled \/ then_enabled
           THEN /\ sess_pc' = "navigate"
                /\ UNCHANGED <<sess_user, sess_attempt, sess_outcome>>
           ELSE SessEndAttempt("Exception")
    /\ UNCHANGED sess_restarts
    /\ UNCHANGED notSess

\* navigate: one _execute_action call
SessNavigate ==
    /\ sess_pc = "navigate"
    /\ \E k \in Recoveries(sess_restarts, 1), navigated \in BOOLEAN :
        /\ sess_restarts' = sess_restarts + k
        /\ \E n \in CycleStarts(k) : sess_starts' = sess_starts + n
        /\ IF navigated
           THEN /\ sess_pc' = "collect"
                /\ UNCHANGED <<sess_user, sess_attempt, sess_outcome>>
           ELSE SessEndAttempt("Exception")
    /\ UNCHANGED notSess

\* wait_for_content_loaded and _scroll_and_collect: at least one evaluate
\* call and up to 2 * scroll_max_attempts - 1 evaluate and press calls of
\* the scroll loop
SessCollect ==
    /\ sess_pc = "collect"
    /\ \E k \in Recoveries(sess_restarts, 2 * scroll_max_attempts),
          o \in SupervisedOutcomes :
        /\ sess_restarts' = sess_restarts + k
        /\ \E n \in CycleStarts(k) : sess_starts' = sess_starts + n
        /\ SessEndAttempt(o.kind)
    /\ UNCHANGED notSess

\* time.sleep(wait_time), then the next attempt
SessBackoff ==
    /\ sess_pc = "backoff"
    /\ sess_pc' = "ensure"
    /\ sess_attempt' = sess_attempt + 1
    /\ UNCHANGED <<sess_user, sess_restarts, sess_outcome, sess_starts>>
    /\ UNCHANGED notSess

SessNext ==
    \/ SessEnsure
    \/ SessNavigate
    \/ SessCollect
    \/ SessBackoff

----------------------------------------------------------------------------
(* _restart_browser of the one BrowserClient, entered by the threads that  *)
(* run crawl_user at the same time: the worker of the profile holding      *)
(* browser_lock and the workers _retry_with_timeout left behind after a    *)
(* timeout. The test of the budget, the read and the write of              *)
(* self.restart_count += 1 are steps of their own: nothing makes them      *)
(* atomic                                                                  *)

Threads == 1..MaxThreads

RestartInit ==
    /\ thread_pc = [t \in Threads |-> "idle"]
    /\ thread_read = [t \in Threads |-> 0]
    /\ shared_count = 0

\* if self.restart_count >= self.config.browser_max_restarts: return False
RestartTest(t) ==
    /\ thread_pc[t] = "idle"
    /\ thread_pc' = [thread_pc EXCEPT ![t] =
                        IF BudgetExhausted(shared_count) THEN "refused"
                        ELSE "tested"]
    /\ UNCHANGED <<thread_read, shared_count>>
    /\ UNCHANGED notRestart

\* self.restart_count += 1, the read
RestartRead(t) ==
    /\ thread_pc[t] = "tested"
    /\ thread_read' = [thread_read EXCEPT ![t] = shared_count]
    /\ thread_pc' = [thread_pc EXCEPT ![t] = "read"]
    /\ UNCHANGED shared_count
    /\ UNCHANGED notRestart

\* self.restart_count += 1, the write
RestartWrite(t) ==
    /\ thread_pc[t] = "read"
    /\ shared_count' = thread_read[t] + 1
    /\ thread_pc' = [thread_pc EXCEPT ![t] = "cycle"]
    /\ thread_read' = [thread_read EXCEPT ![t] = 0]
    /\ UNCHANGED notRestart

\* stop, start and check_status end, or _restart_browser has returned
\* False at once; the thread is back in crawl_user, whose later commands
\* may report the session lost again
RestartReturn(t) ==
    /\ thread_pc[t] \in {"cycle", "refused"}
    /\ thread_pc' = [thread_pc EXCEPT ![t] = "idle"]
    /\ UNCHANGED <<thread_read, shared_count>>
    /\ UNCHANGED notRestart

RestartNext ==
    \E t \in Threads :
        \/ RestartTest(t)
        \/ RestartRead(t)
        \/ RestartWrite(t)
        \/ RestartReturn(t)

----------------------------------------------------------------------------
(* TwitterApiClient: _extract_tweet_id, the two sources and fetch_post     *)

\* URLs as fetch_post reads them: ...host/user/path/id, the id a string of
\* digits and other characters
IdChars == {"1", "a"}

Digits == {"1"}

Urls ==
    [host : {"x.com", "twitter.com", "netflix.com", "example.org"},
     user : {"user", ""},
     path : {"status", "statuses", "likes"},
     id : SeqsUpTo(IdChars, MaxIdLen)]

NoId == <<>>

RECURSIVE DigitsPrefix(_)
\* (\d+) at the start of a string: its longest prefix of digits
DigitsPrefix(chars) ==
    IF chars = <<>> \/ Head(chars) \notin Digits THEN <<>>
    ELSE <<Head(chars)>> \o DigitsPrefix(Tail(chars))

\* re.search(r'(?:x\.com|twitter\.com)/\w+/<segment>/(\d+)', url): the
\* group, NoId without a match; the search is not anchored, so a host that
\* ends in x.com matches too
Search(segment, url) ==
    IF /\ url.host \in {"x.com", "twitter.com", "netflix.com"}
       /\ url.user # ""
       /\ url.path = segment
    THEN DigitsPrefix(url.id)
    ELSE NoId

\* a faulty extraction that takes whatever follows the path
ExtractAnyId(url) == url.id

\* _extract_tweet_id: the first of the patterns that matches
ExtractTweetId(url) ==
    IF Search("status", url) # NoId THEN Search("status", url)
    ELSE Search("statuses", url)

\* the JSON documents a source answers with, by what fetch_post tells apart
Bodies ==
    {"invalid", "null", "empty_dict", "empty_list", "list", "dict_other",
     "dict_tweet", "dict_text", "dict_both", "dict_falsy_fields"}

\* what requests.get meets: an exception, or a response with a status code
\* and a body
Responses ==
    {[kind |-> "error", status |-> 0, body |-> "invalid"]}
        \cup [kind : {"http"}, status : {200}, body : Bodies]
        \cup [kind : {"http"}, status : {404, 500},
              body : {"invalid", "dict_tweet", "dict_text"}]

NoResponse == [kind |-> "none", status |-> 0, body |-> "invalid"]

\* a Python value as fetch_post sees it: its type, and for a dict whether
\* data.get("tweet") and data.get("text") are truthy
Data(py, tweet, text) == [py |-> py, tweet |-> tweet, text |-> text]

NoData == Data("None", FALSE, FALSE)

\* resp.json(): the parsed document; a ValueError on a body that is no JSON
\* ends in the except clause, which returns None
Json(body) ==
    CASE body = "invalid" -> NoData
      [] body = "null" -> NoData
      [] body = "empty_dict" -> Data("empty_dict", FALSE, FALSE)
      [] body = "empty_list" -> Data("empty_list", FALSE, FALSE)
      [] body = "list" -> Data("list", FALSE, FALSE)
      [] body = "dict_other" -> Data("dict", FALSE, FALSE)
      [] body = "dict_falsy_fields" -> Data("dict", FALSE, FALSE)
      [] body = "dict_tweet" -> Data("dict", TRUE, FALSE)
      [] body = "dict_text" -> Data("dict", FALSE, TRUE)
      [] body = "dict_both" -> Data("dict", TRUE, TRUE)

\* _fetch_via_fxtwitter and _fetch_via_syndication: the document of a 200
\* response, None otherwise
FetchVia(resp) ==
    IF resp.kind = "http" /\ resp.status = 200 THEN Json(resp.body) ELSE NoData

\* `data and data.get(field)`: "no" for a falsy data or a falsy field,
\* "yes" for a truthy field, "raised" (AttributeError) for a truthy value
\* without a get method
Marked(data, field) ==
    IF data.py \in {"None", "empty_dict", "empty_list"} THEN "no"
    ELSE IF data.py # "dict" THEN "raised"
    ELSE IF (field = "tweet" /\ data.tweet) \/ (field = "text" /\ data.text)
    THEN "yes"
    ELSE "no"

\* what fetch_post returns: {"data": ..., "source": ...}, None, or the
\* exception that leaves it
Post(source) == [kind |-> "post", source |-> source]

Unavailable == [kind |-> "None", source |-> "None"]

RaisedError == [kind |-> "raised", source |-> "None"]

NotReturned == [kind |-> "running", source |-> "None"]

\* fetch_post as a function of the URL and of what the two sources answer
FetchPost(url, fx, synd) ==
    IF ExtractTweetId(url) = NoId THEN Unavailable
    ELSE LET first == Marked(FetchVia(fx), "tweet")
             second == Marked(FetchVia(synd), "text")
         IN  CASE first = "yes" -> Post("fxtwitter")
               [] first = "raised" -> RaisedError
               [] first = "no" ->
                    CASE second = "yes" -> Post("syndication")
                      [] second = "raised" -> RaisedError
                      [] second = "no" -> Unavailable

FetchInit ==
    /\ fetch_pc = "idle"
    /\ fetch_url = [host |-> "", user |-> "", path |-> "", id |-> <<>>]
    /\ tweet_id = NoId
    /\ fx_response = NoResponse
    /\ synd_response = NoResponse
    /\ fx_calls = 0
    /\ synd_calls = 0
    /\ fetch_result = NotReturned

\* fetch_post(url) up to the first request
FetchPostCall ==
    /\ fetch_pc = "idle"
    /\ \E url \in Urls :
        /\ fetch_url' = url
        /\ tweet_id' = ExtractTweetId(url)
        /\ IF tweet_id' = NoId
           THEN fetch_pc' = "done" /\ fetch_result' = Unavailable
           ELSE fetch_pc' = "fxtwitter" /\ UNCHANGED fetch_result
    /\ UNCHANGED <<fx_response, synd_response, fx_calls, synd_calls>>
    /\ UNCHANGED notFetch

\* data = self._fetch_via_fxtwitter(url); if data and data.get("tweet")
FetchViaFxtwitter ==
    /\ fetch_pc = "fxtwitter"
    /\ \E resp \in Responses :
        /\ fx_response' = resp
        /\ fx_calls' = fx_calls + 1
        /\ LET marked == Marked(FetchVia(resp), "tweet")
           IN  CASE marked = "yes" ->
                      fetch_pc' = "done" /\ fetch_result' = Post("fxtwitter")
                 [] marked = "raised" ->
                      fetch_pc' = "done" /\ fetch_result' = RaisedError
                 [] marked = "no" ->
                      fetch_pc' = "syndication" /\ UNCHANGED fetch_result
    /\ UNCHANGED <<fetch_url, tweet_id, synd_response, synd_calls>>
    /\ UNCHANGED notFetch

\* data = self._fetch_via_syndication(tweet_id); if data and data.get("text")
FetchViaSyndication ==
    /\ fetch_pc = "syndication"
    /\ \E resp \in Responses :
        /\ synd_response' = resp
        /\ synd_calls' = synd_calls + 1
        /\ fetch_pc' = "done"
        /\ LET marked == Marked(FetchVia(resp), "text")
           IN  fetch_result' =
                   CASE marked = "yes" -> Post("syndication")
                     [] marked = "raised" -> RaisedError
                     [] marked = "no" -> Unavailable
    /\ UNCHANGED <<fetch_url, tweet_id, fx_response, fx_calls>>
    /\ UNCHANGED notFetch

FetchNext ==
    \/ FetchPostCall
    \/ FetchViaFxtwitter
    \/ FetchViaSyndication

----------------------------------------------------------------------------
(* The extraction script of PostCrawler._get_scroll_js, run on a document  *)

\* the a elements of an article: whether the href contains "/status/", the
\* status id after it, and what follows the id
Anchor(status, id, suffix) == [status |-> status, id |-> id, suffix |-> suffix]

AnchorLists ==
    {<<>>,
     <<Anchor(TRUE, 1, "")>>,
     <<Anchor(TRUE, 2, "")>>,
     <<Anchor(FALSE, 0, ""), Anchor(TRUE, 1, "/photo/1")>>,
     <<Anchor(TRUE, 1, "/analytics"), Anchor(TRUE, 2, "")>>,
     <<Anchor(TRUE, 2, "/photo/1"), Anchor(TRUE, 1, "")>>}

\* the time element of an article: none, one without a datetime
\* attribute, one whose datetime is no date, or a date in days from now
TimeElements ==
    {[kind |-> k, at |-> 0] : k \in {"none", "noattr", "invalid"}}
        \cup {[kind |-> "date", at |-> d] : d \in {-2, -1, 0}}

Articles == [time : TimeElements, anchors : AnchorLists]

\* oneDayAgo = now - 24h, in days from now
OneDayAgo == -1

\* tweetDate < oneDayAgo; false for an Invalid Date, which compares as NaN
OlderThanOneDay(time) == time.kind = "date" /\ time.at < OneDayAgo

\* the three `continue` of the loop body
Skipped(article) ==
    \/ article.time.kind = "none"
    \/ article.time.kind = "noattr"
    \/ OlderThanOneDay(article.time)

\* article.querySelectorAll('a[href*="/status/"]')
Links(article) == SelectSeq(article.anchors, LAMBDA a : a.status)

\* fullUrl: the href up to the status id; what follows the id is dropped
FullUrl(link) == link.id

\* a faulty push that does not look into result
PushAlways(list, fullUrl) == Append(list, fullUrl)

\* if (!result.includes(fullUrl)) result.push(fullUrl)
Push(list, fullUrl) ==
    IF fullUrl \in SeqToSet(list) THEN list ELSE Append(list, fullUrl)

\* the body of the loop over the articles: the inner loop takes the first
\* link and breaks
ArticleBody(list, article) ==
    IF Skipped(article) \/ Links(article) = <<>> THEN list
    ELSE Push(list, FullUrl(Links(article)[1]))

JsInit ==
    /\ js_pc = "idle"
    /\ page = <<>>
    /\ js_i = 0
    /\ js_result = <<>>

\* the script starts on a document: articles, now, oneDayAgo, result = []
JsStart ==
    /\ js_pc = "idle"
    /\ page' \in SeqsUpTo(Articles, MaxArticles)
    /\ js_i' = 1
    /\ js_result' = <<>>
    /\ js_pc' = "loop"
    /\ UNCHANGED notJs

\* one pass of for (let i = 0; i < articles.length; i++)
JsArticle ==
    /\ js_pc = "loop"
    /\ js_i <= Len(page)
    /\ js_result' = ArticleBody(js_result, page[js_i])
    /\ js_i' = js_i + 1
    /\ UNCHANGED <<js_pc, page>>
    /\ UNCHANGED notJs

\* return result
JsReturn ==
    /\ js_pc = "loop"
    /\ js_i > Len(page)
    /\ js_pc' = "returned"
    /\ UNCHANGED <<page, js_i, js_result>>
    /\ UNCHANGED notJs

JsNext ==
    \/ JsStart
    \/ JsArticle
    \/ JsReturn

----------------------------------------------------------------------------
(* main(): CrawlHot(), the command, crawl_all_users seen from the          *)
(* scheduler's thread (one profile per step), and save_markdown            *)

\* sys.argv[1:] as main() tells the cases apart
Commands ==
    {<<>>, <<"add">>, <<"add", "user">>, <<"remove">>, <<"remove", "user">>,
     <<"list">>, <<"crawl">>, <<"crawl", "user">>, <<"other">>}

NoExit == -1

\* the evaluate replies the profiles of a run are crawled on
RunReplies ==
    {[kind |-> "list", urls |-> l] : l \in {<<>>, <<1>>, <<2, 1>>}}
        \cup {[kind |-> "None", urls |-> <<>>]}

\* what crawl_single_user can return for a profile: the URLs of the last
\* attempt of _retry_crawl_user ([] after NoPostsFoundError, after the last
\* failed attempt and after a timeout), by whether ensure_available succeeds
RunOutcomes ==
    [available \in BOOLEAN |->
        {CrawlUser(available, n, r).urls :
            n \in BOOLEAN, r \in CompleteRuns(RunReplies, MaxRunLen)}]

RECURSIVE TotalPosts(_)
\* sum(len(urls) for urls in all_results.values())
TotalPosts(results) ==
    IF results = <<>> THEN 0
    ELSE Len(Head(results)[2]) + TotalPosts(Tail(results))

\* before CrawlHot() is constructed; the lock, the control surface and the
\* command line are read by the steps that follow
MainInit ==
    /\ acquired = FALSE
    /\ surface = FALSE
    /\ argv = <<>>
    /\ main_pc = "start"
    /\ exit_code = NoExit
    /\ run_users = 0
    /\ run_results = <<>>
    /\ run_txt = <<>>
    /\ content = <<>>
    /\ post_infos = <<>>
    /\ fetch_log = <<>>
    /\ md_file = <<>>

\* the process ends: sys.exit(code), or main() returns (code 0); the
\* finally clause of main() releases the lock on the way
Exit(code) ==
    /\ main_pc' = "exited"
    /\ exit_code' = code

\* crawler = CrawlHot(): sys.exit(1) when the lock is not acquired; nothing
\* here asks the control surface, whether it answers or not
Construct ==
    /\ main_pc = "start"
    /\ acquired' \in BOOLEAN
    /\ surface' \in BOOLEAN
    /\ IF acquired'
       THEN main_pc' = "argv" /\ UNCHANGED exit_code
       ELSE Exit(1)
    /\ UNCHANGED <<argv, run_users, run_results, run_txt,
                   content, post_infos, fetch_log, md_file>>
    /\ UNCHANGED notMain

\* the exit code of the commands that end within main(): usage errors exit
\* with 1; add, remove, list and the crawl of one profile return
CommandExit(args) ==
    IF Len(args) < 1 THEN 1
    ELSE IF args[1] \in {"add", "remove"} THEN (IF Len(args) < 2 THEN 1 ELSE 0)
    ELSE IF args[1] = "list" THEN 0
    ELSE IF args[1] = "crawl" THEN 0
    ELSE 1

\* the if/elif chain of main()
Dispatch ==
    /\ main_pc = "argv"
    /\ argv' \in Commands
    /\ IF argv' = <<"crawl">>
       THEN main_pc' = "load" /\ UNCHANGED exit_code
       ELSE Exit(CommandExit(argv'))
    /\ UNCHANGED <<acquired, surface, run_users, run_results, run_txt,
                   content, post_infos, fetch_log, md_file>>
    /\ UNCHANGED notMain

\* users = self.user_manager.load(); return {} when there are none;
\* otherwise create_txt writes the head of the TXT file
Load ==
    /\ main_pc = "load"
    /\ \E n \in 0..MaxUsers :
        /\ run_users' = n
        /\ IF n = 0
           THEN Exit(0) /\ UNCHANGED run_txt
           ELSE /\ main_pc' = "pool"
                /\ run_txt' = <<[kind |-> "head", total |-> n]>>
                /\ UNCHANGED exit_code
    /\ UNCHANGED <<acquired, surface, argv, run_results,
                   content, post_infos, fetch_log, md_file>>
    /\ UNCHANGED notMain

\* one pass of the as_completed loop of crawl_all_users: the future of
\* profile u is done with `urls`
RunCollect ==
    /\ main_pc = "pool"
    /\ \E u \in 1..run_users, urls \in RunOutcomes[surface] :
        /\ \A i \in 1..Len(run_results) : run_results[i][1] # u
        /\ TotalPosts(run_results) + Len(urls) <= MaxPosts
        /\ run_results' = Append(run_results, <<u, urls>>)
        /\ run_txt' = Append(run_txt,
               [kind |-> "record",
                record |-> TxtRecord(u, urls, NextCount(Len(run_results)),
                                     run_users)])
    /\ UNCHANGED <<acquired, surface, argv, main_pc, exit_code, run_users,
                   content, post_infos, fetch_log, md_file>>
    /\ UNCHANGED notMain

\* a faulty pool that lets the scheduler go on before every future is done
PoolDoneEarly(done, total) == TRUE

\* the with block of the executor and its as_completed loop are left when
\* every submitted future has been handled
PoolDone(done, total) == done = total

\* finalize_txt(txt_filepath, total_posts)
Finalize ==
    /\ main_pc = "pool"
    /\ PoolDone(Len(run_results), run_users)
    /\ run_txt' = Append(run_txt,
           [kind |-> "footer", total |-> TotalPosts(run_results)])
    /\ main_pc' = "save_markdown"
    /\ UNCHANGED <<acquired, surface, argv, exit_code, run_users, run_results,
                   content, post_infos, fetch_log, md_file>>
    /\ UNCHANGED notMain

\* one string of the list content: what kind of text it is and which of
\* the profile, the post number and the URL it spells out (0: none)
Elem(kind, user, index, url) ==
    [kind |-> kind, user |-> user, index |-> index, url |-> url]

\* header: title, crawl time, number of users, number of posts, rule
ReportHeader ==
    <<Elem("title", 0, 0, 0), Elem("time", 0, 0, 0), Elem("users", 0, 0, 0),
      Elem("posts", 0, 0, 0), Elem("rule", 0, 0, 0)>>

\* the four strings of a placeholder: "### 帖子 i", "> 正在获取内容...",
\* "- URL: url", "---"
Placeholder(i, url) ==
    <<Elem("post_title", 0, i, 0), Elem("fetching", 0, 0, 0),
      Elem("url", 0, 0, url), Elem("rule", 0, 0, 0)>>

\* a faulty index that is one element short
SectionStartOff(list) == Len(list)

\* section_start = len(content): the index of the element appended next
\* (sequences count from 1)
SectionStart(list) == Len(list) + 1

RECURSIVE Placeholders(_, _, _, _)
\* for i, url in enumerate(urls, 1), from post i on
Placeholders(st, user, urls, i) ==
    IF i > Len(urls) THEN st
    ELSE Placeholders(
            [content |-> st.content \o Placeholder(i, urls[i]),
             post_infos |-> Append(st.post_infos,
                 [user |-> user, url |-> urls[i], index |-> i,
                  total |-> Len(urls),
                  section_start |-> SectionStart(st.content)])],
            user, urls, i + 1)

RECURSIVE Sections(_, _)
\* for user, urls in results.items(): profiles without URLs are skipped
Sections(st, results) ==
    IF results = <<>> THEN st
    ELSE LET user == Head(results)[1]
             urls == Head(results)[2]
         IN  IF urls = <<>>
             THEN Sections(st, Tail(results))
             ELSE Sections(
                     Placeholders(
                         [st EXCEPT !.content = @ \o
                             <<Elem("profile", user, Len(urls), 0),
                               Elem("rule", 0, 0, 0)>>],
                         user, urls, 1),
                     Tail(results))

\* save_markdown up to the submission of the fetches: content and post_infos
Prepare ==
    /\ main_pc = "save_markdown"
    /\ LET st == Sections([content |-> ReportHeader, post_infos |-> <<>>],
                          run_results)
       IN  content' = st.content /\ post_infos' = st.post_infos
    /\ main_pc' = "fetch"
    /\ UNCHANGED <<acquired, surface, argv, exit_code, run_users, run_results,
                   run_txt, fetch_log, md_file>>
    /\ UNCHANGED notMain

\* the URLs the extraction script builds: 'https://x.com' + ... + '/status/'
\* + statusId
CrawledUrls == {url \in Urls : url.host = "x.com" /\ url.path = "status"}

\* fetch_content(info): the markdown of the post fetch_post returned, None
\* when it returned None, or the exception that left it
FetchContent(url, fx, synd) ==
    LET post_data == FetchPost(url, fx, synd)
    IN  CASE post_data.kind = "post" -> "markdown"
          [] post_data.kind = "None" -> "None"
          [] post_data.kind = "raised" -> "raised"

\* how the future of fetch_content can end
FetchContentOutcomes ==
    {FetchContent(url, fx, synd) :
        url \in CrawledUrls, fx \in Responses, synd \in Responses}

\* a faulty replacement that writes every result into the first section
SectionOfFirst(info) == Len(ReportHeader) + 3

\* content[info['section_start']]
SectionOf(info) == info.section_start

\* the try block of the as_completed loop of save_markdown
Replaced(list, info, out) ==
    IF out = "raised" THEN list
    ELSE IF out = "markdown"
    THEN [list EXCEPT ![SectionOf(info)] = Elem("markdown", 0, 0, info.url)]
    ELSE [list EXCEPT ![SectionOf(info)] =
                          Elem("unavailable", 0, info.index, info.url)]

\* one pass of the as_completed loop of save_markdown: the future of post
\* k is done (futures come in the order they finish, those finished before
\* the loop starts in any order)
HandleFuture ==
    /\ main_pc = "fetch"
    /\ \E k \in 1..Len(post_infos), out \in FetchContentOutcomes :
        /\ k \notin SeqToSet(fetch_log)
        /\ content' = Replaced(content, post_infos[k], out)
        /\ fetch_log' = Append(fetch_log, k)
    /\ UNCHANGED <<acquired, surface, argv, main_pc, exit_code, run_users,
                   run_results, run_txt, post_infos, md_file>>
    /\ UNCHANGED notMain

\* with open(md_filepath, "w"): f.write("".join(content))
WriteReport ==
    /\ main_pc = "fetch"
    /\ Len(fetch_log) = Len(post_infos)
    /\ md_file' = Append(md_file, content)
    /\ main_pc' = "summary"
    /\ UNCHANGED <<acquired, surface, argv, exit_code, run_users, run_results,
                   run_txt, content, post_infos, fetch_log>>
    /\ UNCHANGED notMain

\* _print_summary, return all_results; main() returns
ReturnResults ==
    /\ main_pc = "summary"
    /\ Exit(0)
    /\ UNCHANGED <<acquired, surface, argv, run_users, run_results, run_txt,
                   content, post_infos, fetch_log, md_file>>
    /\ UNCHANGED notMain

MainNext ==
    \/ Construct
    \/ Dispatch
    \/ Load
    \/ RunCollect
    \/ Finalize
    \/ Prepare
    \/ HandleFuture
    \/ WriteReport
    \/ ReturnResults

----------------------------------------------------------------------------
(* Specifications                                                          *)

Init ==
    /\ SupInit /\ CrawlInit /\ ClientInit /\ LockInit /\ SessInit
    /\ MainInit /\ FetchInit /\ JsInit /\ ParseInit /\ RestartInit

Next == SupNext

Spec == Init /\ [][Next]_vars

SpecCrawl == Init /\ [][CrawlNext]_vars

SpecClient == Init /\ [][ClientNext]_vars

SpecLock == Init /\ [][LockNext]_vars

SpecMain == Init /\ [][MainNext]_vars

SpecFetch == Init /\ [][FetchNext]_vars

SpecExtract == Init /\ [][JsNext]_vars

SpecSession == Init /\ [][SessNext]_vars

SpecParse == Init /\ [][ParseNext]_vars

SpecRestart == Init /\ [][RestartNext]_vars

\* every thread is scheduled again and again, every command and every sleep
\* ends (subprocess timeouts, bounded loops): some enabled step is taken
FairSpec == Spec /\ WF_vars(Next)

----------------------------------------------------------------------------
(* Claims about the supervision (Spec, FairSpec)                           *)

\* the worker of u is inside crawl_user, issuing commands to the browser
Commanding(u) == worker[u] = "crawl"

\* the worker of u has been started and has not ended
Running(u) == worker[u] \in {"crawl", "backoff"}

\* C1: at most one profile's collection issues control commands to the
\* browser at a time: no two workers are inside crawl_user at once.
C1_OneCollectionAtATime ==
    \A u, v \in Users : (Commanding(u) /\ Commanding(v)) => u = v

\* C3 (state part): no more than max_retries attempts are made for a
\* profile, and the worker sleeps before a retry only after a failed attempt
\* that was not the last one.
C3_Bounded ==
    \A u \in Users :
        /\ attempt[u] <= max_retries
        /\ worker[u] = "backoff" =>
               outcome[u] = "Exception" /\ attempt[u] < max_retries

\* C3 (step part): an attempt that fails with anything but no-posts is
\* followed by a sleep and the next attempt unless it was attempt
\* max_retries; the loop ends only on URLs, on no-posts or after attempt
\* max_retries; every new attempt counts one up.
C3_Step ==
    \A u \in Users :
        /\ (worker[u] = "crawl" /\ outcome'[u] = "Exception"
                /\ attempt[u] < max_retries)
               => worker'[u] = "backoff"
        /\ (worker[u] = "crawl" /\ worker'[u] = "done")
               => \/ outcome'[u] \in {"urls", "NoPostsFoundError"}
                  \/ attempt[u] = max_retries
        /\ (worker[u] = "backoff" /\ worker'[u] # "backoff")
               => worker'[u] = "crawl" /\ attempt'[u] = attempt[u] + 1
        /\ (worker[u] = "crawl" /\ worker'[u] = "crawl")
               => attempt'[u] = attempt[u]

\* C3: for each profile the collector is attempted again after every
\* failure other than no-posts until an attempt succeeds or max_retries
\* attempts have been made, and never more than max_retries times.
C3_RetryUntilMax == []C3_Bounded /\ [][C3_Step]_vars

\* the fifth attempt of a profile is under way after four failed ones
C3_Witness ==
    \E u \in Users : worker[u] = "crawl" /\ attempt[u] = max_retries

\* C6: a timeout counts as a failed attempt and is followed by another
\* attempt while fewer than max_retries attempts have been made; stated for
\* the timeout that strikes during the first attempt (no retry precedes it):
\* once the timeout handler has run during the first attempt, the retry
\* loop does not end with that attempt.
C6_TimeoutRetried ==
    [][\A u \in Users :
          (timer[u] = "fired" /\ worker[u] = "crawl" /\ attempt[u] = 1
              /\ attempt[u] < max_retries)
             => worker'[u] # "done"]_vars

\* C7 as stated: whenever the timeout handler has run for a profile, what
\* the supervisor returned is empty and the error it recorded is the timeout.
C7_FiredMeansDiscarded ==
    \A u \in Users :
        (timer[u] = "fired" /\ task[u] \in {"returned", "collected"})
            => returned[u] = <<>> /\ logged[u] = "CrawlTimeoutError"

\* C7 (amended): when the timeout handler has run before the supervisor
\* inspects the error slot, the supervisor returns an empty result, whatever
\* the worker produced, and records the timeout error; otherwise it records
\* no timeout error (a logic failure is not recorded as a timeout).
C7_TimeoutDiscards ==
    [][\A u \in Users :
          (task[u] = "check" /\ task'[u] = "returned")
             => IF timer[u] = "fired"
                THEN returned'[u] = <<>> /\ logged'[u] = "CrawlTimeoutError"
                ELSE returned'[u] = result[u] /\ logged'[u] # "CrawlTimeoutError"]_vars

\* the supervisor returned [] and recorded the timeout although the worker
\* had produced URLs
C7_Witness ==
    \E u \in Users :
        /\ task[u] = "returned"
        /\ logged[u] = "CrawlTimeoutError"
        /\ result[u] # <<>>
        /\ returned[u] = <<>>

\* C8: while a worker whose timeout handler has run is still running, the
\* browser_lock is held for its profile.
C8_LockHeldUntilWorkerEnds ==
    \A u \in Users :
        (timer[u] = "fired" /\ Running(u)) => browser_lock = {u}

\* every loaded profile has its entry in all_results
AllCollected ==
    /\ \A u \in Users : task[u] = "collected"
    /\ {all_results[i][1] : i \in 1..Len(all_results)} = Users

\* C9: every crawl run terminates: each supervisor returns, the browser_lock
\* is released, and every loaded profile gets its entry in all_results.
C9_RunTerminates == <>(AllCollected /\ browser_lock = {})

\* a run has ended in which a profile timed out and a profile gave up after
\* max_retries failed attempts
C9_Witness ==
    /\ AllCollected
    /\ browser_lock = {}
    /\ \E u \in Users : logged[u] = "CrawlTimeoutError"
    /\ \E u \in Users : worker[u] = "done" /\ outcome[u] = "Exception"

----------------------------------------------------------------------------
(* Claims about one worker's collection (SpecCrawl)                        *)

\* the scroll loop of the attempt ran to its end (convergence or the last
\* scroll) and found no URL
CompletedEmpty ==
    scroll.exit \in {"converged", "exhausted"} /\ scroll.urls = <<>>

\* C4: a profile whose collection completes normally with zero URLs ends in
\* the benign-empty state with an empty result: the retry loop has ended
\* with no-posts, returned [], and that attempt was not logged as a failure
\* (only the attempts before it were).
C4_EmptyIsBenign ==
    CompletedEmpty =>
        /\ crawl_pc = "done"
        /\ crawl_outcome = "NoPostsFoundError"
        /\ crawl_returned = <<>>
        /\ failed_logged = crawl_attempt - 1

\* the second attempt of a profile converged with zero URLs after a first
\* attempt that failed
C4_Witness ==
    /\ scroll.exit = "converged"
    /\ scroll.urls = <<>>
    /\ crawl_attempt = 2
    /\ crawl_pc = "done"

\* C5: an attempt whose scroll loop aborted on consecutive command errors
\* with no URL is reported as a failure, an attempt that converged with no
\* URL as no-posts.
C5_AbortIsFailure ==
    /\ (scroll.exit = "aborted" /\ scroll.urls = <<>>)
           => crawl_outcome = "Exception"
    /\ (scroll.exit = "converged" /\ scroll.urls = <<>>)
           => crawl_outcome = "NoPostsFoundError"

----------------------------------------------------------------------------
(* Claims about the command execution (SpecClient)                         *)

\* C10: once browser_max_restarts recoveries have been triggered, a command
\* run that reports session loss makes the call return None without a stop
\* or start command being issued, and restart_count never decreases.
C10_BudgetSpent ==
    [][/\ (/\ exec_pc = "ran"
           /\ restart_count >= browser_max_restarts
           /\ ran.tab_not_found)
          => /\ exec_pc' = "idle"
             /\ exec_reply' = PyNone
             /\ stops' = stops
             /\ starts' = starts
       /\ restart_count' >= restart_count]_vars

----------------------------------------------------------------------------
(* Claims about the singleton lock (SpecLock)                              *)

\* the processes whose acquire returned True and whose release has not begun
Holders == {i \in Instances : inst[i] = "running"}

\* C2: at most one instance holds the singleton lock at any time, and an
\* instance that could not acquire it has issued no control command.
C2_SingletonLock ==
    /\ Cardinality(Holders) <= 1
    /\ \A i \in Instances :
           inst[i] \in {"failed", "exited_failed"} => ~commanded[i]

----------------------------------------------------------------------------
(* Claims about the run and the restart budget (SpecSession)               *)

\* a navigate command is issued
NavigateIssued == sess_pc = "navigate" /\ sess_pc' # "navigate"

\* a crawl attempt starts: crawl_user is entered
AttemptStarts == sess_pc # "ensure" /\ sess_pc' = "ensure"

\* C11: once restart_count has reached browser_max_restarts, no new crawl
\* attempt is started and no navigate is issued, for the remaining attempts
\* and for the remaining profiles.
C11_StopsWhenExhausted ==
    [][sess_restarts >= browser_max_restarts
          => ~NavigateIssued /\ ~AttemptStarts]_vars

----------------------------------------------------------------------------
(* Claims about the command calls (SpecClient)                             *)

\* C12 (state part): a call has triggered at most one recovery cycle and
\* run its command at most twice; after a recovery that succeeded the
\* command has been run once and is about to be run again, or has been run
\* exactly twice.
C12_Bounded ==
    /\ call_restarts <= 1
    /\ call_runs <= 2
    /\ (exec_pc = "run" /\ call_restarts = 1) => call_runs = 1
    /\ (exec_pc = "ran" /\ call_restarts = 1) => call_runs = 2

\* C12 (step part): a recovery is triggered by the first run only, its
\* success leads to the second run, and the second run ends the call.
C12_Step ==
    /\ (exec_pc = "ran" /\ exec_pc' = "stop") => call_runs = 1
    /\ (exec_pc = "status" /\ exec_pc' # "status")
           => exec_pc' \in {"run", "idle"} /\ call_runs' = 1
    /\ (exec_pc = "ran" /\ call_runs = 2) => exec_pc' \in {"ran", "idle"}

\* C12: within one command call at most one recovery cycle is triggered and
\* the command is run at most twice; when the first run reports
\* tab-not-found and the recovery succeeds, the command is run exactly one
\* more time.
C12_OneRecoveryPerCall == []C12_Bounded /\ [][C12_Step]_vars

\* a call has returned the reply of its second run, made after a recovery
C12_Witness ==
    /\ exec_pc = "idle"
    /\ call_restarts = 1
    /\ call_runs = 2
    /\ exec_reply.py = "dict"

\* C13: a command run whose output holds the tab-not-found marker is never
\* answered with a reply: the call returns None or enters the recovery,
\* whichever attempt it is and whatever the exit code.
C13_MarkerNeverReply ==
    [][(exec_pc = "ran" /\ ran.tab_not_found) => exec_reply' = PyNone]_vars

\* C14: every evaluate command that is run carries the target id of a tab
\* opened after the latest recovery cycle, never one held before it.
C14_RecoveryInvalidatesTarget ==
    [][(exec_pc = "run" /\ action = "evaluate" /\ exec_pc' = "ran")
          => cmd_target = restart_count]_vars

\* C15: navigate returns True only for a reply object whose ok member is
\* true and that carries a target id, which is then held as target_id.
C15_NavigateNeedsTarget ==
    [][(exec_pc = "ran" /\ action = "navigate" /\ exec_pc' = "idle" /\ nav_ok')
          => /\ ran.response.t = "dict"
             /\ ran.response.ok = "true"
             /\ ran.response.targetId # None
             /\ target_id' # NoTarget]_vars

\* C16 (state part): what a call returned is a reply or None, never an
\* exception.
C16_ReplyOrNone == exec_reply.py \in {"dict", "None"}

\* C16 (step part): whatever the run of the command gave, the call goes on
\* (it returns or enters the recovery), and a run that timed out or whose
\* stdout holds no payload gives None.
C16_Step ==
    exec_pc = "ran" =>
        /\ exec_pc' \in {"ran", "idle", "stop"}
        /\ (ran.kind = "TimeoutExpired" \/ ~ran.payload)
               => exec_reply' = PyNone

\* C16: for every command outcome a call returns a reply or None and never
\* raises; output without a valid payload gives None.
C16_NeverRaises == []C16_ReplyOrNone /\ [][C16_Step]_vars

\* a command has ended with exit code 0 and a stdout on which _parse_output
\* raises ValueError
C16_Witness ==
    /\ exec_pc = "ran"
    /\ ran.returncode = 0
    /\ ~ran.tab_not_found
    /\ ran.parsed = ValueError

----------------------------------------------------------------------------
(* Claims about the accumulated URL sequence (SpecCrawl)                   *)

\* C17: the URL sequence accumulated for a profile contains no URL twice,
\* also when a reply itself repeats a URL.
C17_NoUrlTwice ==
    \A i, j \in 1..Len(scroll.urls) :
        scroll.urls[i] = scroll.urls[j] => i = j

\* s is a prefix of t
IsPrefix(s, t) == Len(s) <= Len(t) /\ SubSeq(t, 1, Len(s)) = s

\* C18 (step part): a scroll iteration only appends to the accumulated
\* sequence, and what it appends was not seen before the iteration.
C18_Step ==
    crawl_pc = "scroll" =>
        /\ IsPrefix(scroll.urls, scroll'.urls)
        /\ \A i \in (Len(scroll.urls) + 1)..Len(scroll'.urls) :
               scroll'.urls[i] \notin scroll.seen_ids

\* C18 (state part): the URLs an attempt returns are the accumulated
\* sequence, in its order.
C18_Final ==
    (crawl_pc = "done" /\ crawl_outcome = "urls") => crawl_returned = scroll.urls

\* C18: the accumulated URL sequence only grows by appending: after each
\* iteration the previous sequence is a prefix of the new one, and the
\* final result lists the URLs in the order of their discovery.
C18_AppendOnly == []C18_Final /\ [][C18_Step]_vars

\* URL 2 was discovered by an earlier iteration than URL 1, and the attempt
\* returned them in that order
C18_Witness ==
    /\ crawl_pc = "done"
    /\ crawl_returned = <<2, 1>>
    /\ scroll.evaluates >= 4

----------------------------------------------------------------------------
(* Claims about what the scheduler holds and writes (Spec)                 *)

\* C19: once the supervisor of a profile has returned, the URL sequence it
\* returned never changes again, neither as the scheduler holds it nor as
\* the entry of all_results, whatever the worker of that profile does later.
C19_ReturnedIsFrozen ==
    [][/\ \A u \in Users :
              task[u] \in {"returned", "collected"} => returned'[u] = returned[u]
       /\ \A i \in 1..Len(all_results) : all_results'[i] = all_results[i]]_vars

\* the empty result of a profile has been collected while its abandoned
\* worker is still at work on a later attempt
C19_Witness ==
    \E u \in Users :
        /\ task[u] = "collected"
        /\ Running(u)
        /\ attempt[u] >= 2
        /\ returned[u] = <<>>

\* the records of the TXT file that belong to profile u
RecordsOf(u) == {k \in 1..Len(txt) : txt[k].user = u}

\* C20: the TXT file holds exactly one record for every profile whose
\* future has been handled and none for the others; the record holds what
\* the supervisor returned (the empty list after a timeout), and the k-th
\* record carries the counter k of the number of loaded profiles.
C20_OneRecordPerProfile ==
    /\ \A u \in Users :
          IF task[u] = "collected"
          THEN /\ Cardinality(RecordsOf(u)) = 1
               /\ \A k \in RecordsOf(u) : txt[k].urls = returned[u]
               /\ logged[u] = "CrawlTimeoutError" =>
                      \A k \in RecordsOf(u) : txt[k].urls = <<>>
          ELSE RecordsOf(u) = {}
    /\ \A k \in 1..Len(txt) :
          txt[k].current = k /\ txt[k].total = Cardinality(Users)

\* the run has ended: the first record is not that of the first profile of
\* the list, one record is empty after a timeout and one holds URLs
C20_Witness ==
    /\ AllCollected
    /\ Len(txt) = Cardinality(Users)
    /\ txt[1].user # 1
    /\ \E k \in 1..Len(txt) :
          txt[k].urls = <<>> /\ logged[txt[k].user] = "CrawlTimeoutError"
    /\ \E k \in 1..Len(txt) : txt[k].urls # <<>>

----------------------------------------------------------------------------
(* Claims about a whole run (SpecMain)                                     *)

\* the positions of the TXT file that hold the record of a profile
TxtRecords == {i \in 1..Len(run_txt) : run_txt[i].kind = "record"}

TxtFooters == {i \in 1..Len(run_txt) : run_txt[i].kind = "footer"}

\* save_markdown has been entered
EnrichmentStarted == content # <<>>

\* the order of the run: records, footer, enrichment, report
C21_Order ==
    /\ \A i \in TxtFooters :
          \A u \in 1..run_users :
              \E j \in TxtRecords : j < i /\ run_txt[j].record.user = u
    /\ EnrichmentStarted => TxtFooters # {}
    /\ Len(md_file) <= 1
    /\ md_file # <<>> => EnrichmentStarted /\ Len(fetch_log) = Len(post_infos)

\* a crawl of the profile list has come to its end
RunEnded == main_pc = "exited" /\ acquired /\ argv = <<"crawl">>

\* C21 (as stated): the footer is written only after the record of every
\* profile, enrichment starts only after the footer, and every run writes
\* the report exactly once.
C21_ReportOncePerRun == C21_Order /\ (RunEnded => Len(md_file) = 1)

\* C21 (amended): the footer is written only after the record of every
\* profile, enrichment starts only after the footer, the report is never
\* written twice, and a run that loaded at least one profile writes it
\* exactly once; a run that loaded none writes neither footer nor report.
C21_ReportOncePerLoadedRun ==
    /\ C21_Order
    /\ RunEnded => \/ run_users >= 1 /\ Len(md_file) = 1 /\ TxtFooters # {}
                   \/ run_users = 0 /\ md_file = <<>> /\ run_txt = <<>>

\* a run over two profiles has ended with its report written, the second
\* profile of the list having completed first
C21_Witness ==
    /\ RunEnded
    /\ run_users = 2
    /\ Len(md_file) = 1
    /\ run_results[1][1] = 2
    /\ TotalPosts(run_results) >= 2

----------------------------------------------------------------------------
(* Claims about fetch_post (SpecFetch)                                     *)

\* a source gave a recognisable payload: an HTTP 200 answer whose JSON
\* document is an object with a truthy marker field
Recognisable(resp, field) ==
    /\ resp.kind = "http"
    /\ resp.status = 200
    /\ resp.body \in (IF field = "tweet" THEN {"dict_tweet", "dict_both"}
                      ELSE {"dict_text", "dict_both"})

\* C22: for a URL with an identifier, fetch_post asks the primary source
\* once; if its payload is recognisable the post is sourced from it and the
\* secondary is not asked; otherwise the secondary is asked once, and the
\* post is sourced from it if its payload is recognisable and is
\* unavailable if not.
C22_FirstSourceWins ==
    (fetch_pc = "done" /\ tweet_id # NoId) =>
        /\ fx_calls = 1
        /\ IF Recognisable(fx_response, "tweet")
           THEN fetch_result = Post("fxtwitter") /\ synd_calls = 0
           ELSE /\ synd_calls = 1
                /\ fetch_result = IF Recognisable(synd_response, "text")
                                  THEN Post("syndication")
                                  ELSE Unavailable

\* C23: for a URL whose last part does not start with a digit, and for any
\* URL no identifier is extracted from, fetch_post returns unavailable and
\* has sent no request to either source.
C23_NoIdNoCalls ==
    (fetch_pc = "done" /\ (tweet_id = NoId \/ DigitsPrefix(fetch_url.id) = <<>>)) =>
        /\ tweet_id = NoId
        /\ fetch_result = Unavailable
        /\ fx_calls = 0
        /\ synd_calls = 0

\* fetch_post has returned for a status URL of x.com whose identifier is
\* not a number
C23_Witness ==
    /\ fetch_pc = "done"
    /\ fetch_url = [host |-> "x.com", user |-> "user", path |-> "status",
                    id |-> <<"a", "1">>]
    /\ fetch_result = Unavailable

----------------------------------------------------------------------------
(* Claims about the report (SpecMain)                                      *)

\* the strings a section of the report can begin with
SectionHeads == {"post_title", "markdown", "unavailable"}

RECURSIVE ReadSections(_, _)
\* the sections of a report from top to bottom, each with the profile
\* heading it stands under
ReadSections(list, user) ==
    IF list = <<>> THEN <<>>
    ELSE LET e == Head(list)
         IN  IF e.kind = "profile" THEN ReadSections(Tail(list), e.user)
             ELSE IF e.kind \in SectionHeads
             THEN <<[user |-> user, head |-> e]>> \o ReadSections(Tail(list), user)
             ELSE ReadSections(Tail(list), user)

RECURSIVE Submitted(_)
\* the posts of the run, profile by profile in the order of all_results,
\* post by post within a profile
Submitted(results) ==
    IF results = <<>> THEN <<>>
    ELSE [i \in 1..Len(Head(results)[2]) |->
             [user |-> Head(results)[1], index |-> i, url |-> Head(results)[2][i]]]
         \o Submitted(Tail(results))

\* a section of the report is that of the given post, as far as its text
\* tells
SectionIsOf(sec, post) ==
    /\ sec.user = post.user
    /\ CASE sec.head.kind = "markdown" -> sec.head.url = post.url
         [] sec.head.kind = "unavailable" ->
               sec.head.index = post.index /\ sec.head.url = post.url
         [] sec.head.kind = "post_title" -> sec.head.index = post.index

\* C24: the report that is written holds one section per submitted post,
\* and the k-th section is that of the k-th post submitted, whatever the
\* order in which the fetches were handled.
C24_SubmissionOrder ==
    md_file # <<>> =>
        LET secs == ReadSections(md_file[1], 0)
            posts == Submitted(run_results)
        IN  /\ Len(secs) = Len(posts)
            /\ \A k \in 1..Len(posts) : SectionIsOf(secs[k], posts[k])

\* the report of three posts is written, the fetch of the last post having
\* been handled first and that of the first post last, with content
C24_Witness ==
    /\ md_file # <<>>
    /\ Len(post_infos) = 3
    /\ fetch_log = <<3, 2, 1>>
    /\ \A k \in 1..3 : md_file[1][post_infos[k].section_start].kind = "markdown"

\* C25: the report that is written holds no string of a placeholder: no
\* "fetching" line and no bare post title.
C25_NoPlaceholderLeft ==
    md_file # <<>> =>
        \A i \in 1..Len(md_file[1]) :
            md_file[1][i].kind \notin {"fetching", "post_title"}

\* C26: after the placeholders are written, a string of content changes
\* only if it is the head of the placeholder of the post whose fetch is
\* being handled; what a fetch has written is never written again.
C26_WrittenOnce ==
    [][content # <<>> =>
          \A i \in 1..Len(content) :
              content'[i] # content[i] =>
                  /\ content[i].kind = "post_title"
                  /\ Len(fetch_log') = Len(fetch_log) + 1
                  /\ i = post_infos[fetch_log'[Len(fetch_log')]].section_start]_vars

\* the first post has its content, and the fetches of two later posts have
\* been handled after it, one without content and one with an error
C26_Witness ==
    /\ Len(fetch_log) = 3
    /\ fetch_log[1] = 1
    /\ content[post_infos[1].section_start].kind = "markdown"
    /\ \E k \in 2..3 : content[post_infos[k].section_start].kind = "unavailable"
    /\ \E k \in 2..3 : content[post_infos[k].section_start].kind = "post_title"

\* C27: the process exits with a non-zero code when the lock was not
\* acquired, with a non-zero code when a crawl of the loaded profiles was
\* asked for while the control surface did not answer at startup, and with
\* 0 after every crawl run that took place, whatever the profiles returned.
C27_ExitCodes ==
    main_pc = "exited" =>
        /\ ~acquired => exit_code # 0
        /\ (acquired /\ argv = <<"crawl">> /\ run_users >= 1 /\ ~surface) =>
               exit_code # 0
        /\ (acquired /\ argv = <<"crawl">> /\ surface) => exit_code = 0

----------------------------------------------------------------------------
(* Claims about one extraction pass (SpecExtract)                          *)

\* an article whose time element carries a datetime that is not older than
\* now minus 24h (a datetime that is no date is older than nothing)
InWindow(article) ==
    /\ article.time.kind \in {"invalid", "date"}
    /\ ~(article.time.kind = "date" /\ article.time.at < OneDayAgo)

\* the articles of the page the pass takes a URL from: those in the window
\* that hold a permalink
Sources == {i \in 1..Len(page) : InWindow(page[i]) /\ Links(page[i]) # <<>>}

\* the URL of the first permalink of article i
FirstPermalink(i) == FullUrl(Links(page[i])[1])

\* the first article of the page the URL is taken from
FirstSource(url) ==
    CHOOSE i \in Sources :
        /\ FirstPermalink(i) = url
        /\ \A j \in Sources : FirstPermalink(j) = url => i <= j

\* C28: the pass returns no URL twice; the URLs it returns are the first
\* permalinks of the articles in the window, one per such article at most;
\* and they stand in the order of the articles they are first taken from.
C28_ExtractionPass ==
    js_pc = "returned" =>
        /\ \A p, q \in 1..Len(js_result) : js_result[p] = js_result[q] => p = q
        /\ SeqToSet(js_result) = {FirstPermalink(i) : i \in Sources}
        /\ \A p, q \in 1..Len(js_result) :
              p < q => FirstSource(js_result[p]) < FirstSource(js_result[q])

\* the pass has returned one URL for a page of two articles in the window
\* whose first permalinks lead to the same post, the first by way of a
\* photo link that follows a link to something else
C28_Witness ==
    /\ js_pc = "returned"
    /\ Len(page) = 2
    /\ page[1].anchors = <<Anchor(FALSE, 0, ""), Anchor(TRUE, 1, "/photo/1")>>
    /\ page[1].time = [kind |-> "date", at |-> -1]
    /\ page[2].anchors = <<Anchor(TRUE, 1, "")>>
    /\ page[2].time = [kind |-> "date", at |-> 0]
    /\ js_result = <<1>>

----------------------------------------------------------------------------
(* Claims about the scroll loop (SpecCrawl)                                *)

\* an iteration of the scroll loop has just run
ScrollStep == crawl_pc = "scroll" /\ scroll'.evaluates = scroll.evaluates + 1

\* the iteration that has just run took a URL list from evaluate
ListStep == ScrollStep /\ error_run' = 0

\* every iteration that takes a URL list resets the counter if the list
\* holds an unseen URL and adds one to it if not; the loop is left, without
\* a PageDown, by the iteration that brings the counter to the threshold
C29_Step ==
    /\ ListStep =>
          IF scroll'.urls # scroll.urls
          THEN scroll'.no_new_count = 0
          ELSE scroll'.no_new_count = scroll.no_new_count + 1
    /\ (ScrollStep /\ scroll'.no_new_count >= scroll_no_new_threshold) =>
          /\ scroll'.exit = "converged"
          /\ scroll'.presses = scroll.presses
    /\ scroll.exit # "running" =>
          /\ scroll'.evaluates <= scroll.evaluates
          /\ scroll'.presses <= scroll.presses

\* C29: the no-new counter is incremented by every iteration whose URL
\* list holds no unseen URL and reset to zero by every iteration whose list
\* holds one; the loop stops at the first iteration at which the counter
\* reaches scroll_no_new_threshold, and no evaluate and no PageDown of that
\* loop follows.
C29_NoNewCounter ==
    /\ [](scroll.exit = "running" => scroll.no_new_count < scroll_no_new_threshold)
    /\ [](scroll.exit = "converged" =>
             scroll.no_new_count = scroll_no_new_threshold)
    /\ [][C29_Step]_vars

\* the loop has stopped on the counter after it had found URLs, counted an
\* empty iteration, found another URL and counted two more empty iterations
C29_Witness ==
    /\ scroll.exit = "converged"
    /\ scroll.urls = <<1, 2>>
    /\ scroll.evaluates = 5
    /\ scroll.presses = 4

\* C30: the loop does not go on after scroll_max_consecutive_errors
\* iterations in a row have each ended in an error (a failed command or a
\* reply that is no URL list).
C30_AbortsAfterErrors ==
    (crawl_pc = "scroll" /\ scroll.exit = "running") =>
        error_run < scroll_max_consecutive_errors

\* C31: with the early stop enabled, the first iteration of a loop, if it
\* finds a URL and the first URL found is older than the window, ends the
\* loop: no PageDown follows it and the loop is no longer running.
C31_StopsOnYesterday ==
    [][(/\ scroll_early_stop_on_yesterday
        /\ ScrollStep
        /\ scroll.scroll_num = 1
        /\ scroll'.urls # <<>>
        /\ OlderThanWindow(scroll'.urls[1]))
       => (scroll'.exit # "running" /\ scroll'.presses = scroll.presses)]_vars

\* C32: a loop evaluates the script at most scroll_max_attempts times and
\* presses PageDown once between two iterations: as often as it has
\* evaluated while it runs, once less when it has ended, and never more
\* than scroll_max_attempts - 1 times.
C32_BoundedLoop ==
    /\ scroll.evaluates <= scroll_max_attempts
    /\ scroll.presses <= scroll_max_attempts - 1
    /\ scroll.exit = "running" => scroll.presses = scroll.evaluates
    /\ scroll.exit # "running" => scroll.presses = scroll.evaluates - 1

\* the loop has used up its iterations, and has found a URL in the last
C32_Witness ==
    /\ scroll.exit = "exhausted"
    /\ scroll.evaluates = scroll_max_attempts
    /\ scroll.presses = scroll_max_attempts - 1
    /\ scroll.no_new_count = 0

\* C38: no iteration of the scroll loop leaves the loop by an exception;
\* a reply that is no URL list adds one to the count of consecutive errors
\* and the loop goes on or gives up on that count.
C38_TypedReplyIsAnError == scroll.exit # "raised"

----------------------------------------------------------------------------
(* Claims about the recovery cycle (SpecClient)                            *)

\* the commands of a recovery cycle, in the order of _restart_browser
CycleSteps == <<"stop", "start", "status">>

\* C33 (state part): the commands issued by a cycle are a prefix of stop,
\* start, status; success is reported exactly when all three were issued
\* and the status command ended with exit code 0 and "enabled: true"; a
\* step that raised makes the cycle report failure; the count of the
\* client is the number of cycles entered.
C33_Cycle ==
    /\ recovery.steps = SubSeq(CycleSteps, 1, Len(recovery.steps))
    /\ recovery.reported = "success"
           <=> /\ recovery.steps = CycleSteps
               /\ recovery.status.kind = "completed"
               /\ recovery.status.returncode = 0
               /\ recovery.status.enabled
    /\ recovery.error => recovery.reported = "failure"
    /\ (recovery.reported = "failure" /\ ~recovery.error)
           => recovery.steps = CycleSteps /\ recovery.status.kind = "completed"
    /\ restart_count = stops

\* C33 (step part): entering a cycle adds one to restart_count, which the
\* rest of the cycle leaves as it is, whatever the cycle reports; a cycle
\* that reports success lets the call run its command again, one that
\* reports failure ends the call with None.
C33_Step ==
    /\ (recovery.steps = <<>> /\ recovery'.steps # <<>>)
           => restart_count' = restart_count + 1
    /\ recovery.steps # <<>> => restart_count' = restart_count
    /\ (recovery.reported = "none" /\ recovery'.reported = "success")
           => exec_pc' = "run"
    /\ (recovery.reported = "none" /\ recovery'.reported = "failure")
           => exec_pc' = "idle" /\ exec_reply' = PyNone

\* C33: a recovery cycle issues stop, then start, then a status check, in
\* that order, and reports success exactly when the status check reports
\* the browser enabled; a step that raises makes it report failure, and the
\* cycle counts against the restart budget whether it succeeds or not.
C33_RecoveryCycle == []C33_Cycle /\ [][C33_Step]_vars

\* a cycle has reported success after a status check that found the
\* browser enabled, and the count has been charged
C33_Witness ==
    /\ recovery.reported = "success"
    /\ recovery.steps = CycleSteps
    /\ restart_count >= 1
    /\ exec_pc = "run"

----------------------------------------------------------------------------
(* Claims about _parse_output (SpecParse)                                  *)

\* C34: starting at the first payload-start line, the parser returns the
\* value of the shortest run of consecutive lines that forms valid JSON,
\* the run made of the payload-start line alone included when further
\* non-blank lines follow it (and None when no run does).
C34_ShortestRunReturned ==
    (parse_pc = "returned" /\ Scan(output, 1).at # 0)
        => LET start == Scan(output, 1).at
               last == ShortestRun(output, start, start)
           IN  parsed = IF last = 0 THEN PyNone
                        ELSE ReplyOf(JsonLoads(SubSeq(output, start, last)))

----------------------------------------------------------------------------
(* Claims about the restart budget under concurrency (SpecRestart)         *)

\* C35: the restart count of the client is at most browser_max_restarts in
\* every reachable state, for every interleaving of the threads that can
\* reach the recovery code.
C35_CountWithinBudget == shared_count <= browser_max_restarts

----------------------------------------------------------------------------
(* Claims about a failed acquisition of the singleton lock (SpecLock)      *)

\* some instance is between the open and the flock of acquire
Acquiring == \E i \in Instances : inst[i] = "opened"

\* C36 (state part): once an instance has failed to acquire the lock, and
\* no acquire is under way, the lock file of a running holder still exists
\* and holds the holder's pid.
C36_LockKept ==
    \A h \in Holders, i \in Instances :
        (inst[i] \in {"failed", "exited_failed"} /\ ~Acquiring)
            => lock_path = lock_fd[h] /\ lock_content[lock_fd[h]] = h

\* C36 (step part): an instance whose acquire ends while a holder is still
\* running fails to acquire the lock.
C36_LaterAcquireFails ==
    \A j \in Instances :
        (inst[j] = "opened" /\ inst'[j] # "opened" /\ Holders # {})
            => inst'[j] = "failed"

\* C36: an instance that fails to acquire the singleton lock leaves the
\* lock untouched: the lock file still exists afterwards with the holder's
\* content, so a third instance started while the holder is still running
\* also fails to acquire it.
C36_FailedAcquireLeavesLock == []C36_LockKept /\ [][C36_LaterAcquireFails]_vars

----------------------------------------------------------------------------
(* Claims about the start commands of a run (SpecSession)                  *)

\* C37: over a process lifetime the number of browser start commands
\* issued is at most browser_max_restarts: a start is issued only inside a
\* recovery cycle that was charged to the restart budget, so there are no
\* more start commands than charged cycles.
C37_StartsWithinBudget ==
    /\ sess_starts <= browser_max_restarts
    /\ sess_starts <= sess_restarts

----------------------------------------------------------------------------
(* Claims about the worker that ends in time (Spec)                        *)

\* _retry_with_timeout of u has returned what the worker collected
ReturnedCollected(u) ==
    task[u] \in {"returned", "collected"} => returned[u] = result[u]

\* C39: if the worker of a profile finishes without error before the
\* timeout watcher fires, the supervisor returns exactly the URLs that
\* worker collected, for every interleaving of the worker, the watcher and
\* the supervisor's cancel of the watcher.
C39_InTimeResultReturned ==
    \A u \in Users : ended_in_time[u] => ReturnedCollected(u)

----------------------------------------------------------------------------
(* Claims about the order of the profiles (SpecMain)                       *)

\* the loaded profile list is 1, 2, ... run_users: the entries of the
\* aggregated result follow it
ResultsInLoadedOrder ==
    \A i \in 1..Len(run_results), j \in 1..Len(run_results) :
        i < j => run_results[i][1] < run_results[j][1]

\* the posts of the report follow the loaded profile list
ReportInLoadedOrder ==
    \A i \in 1..Len(post_infos), j \in 1..Len(post_infos) :
        i < j => post_infos[i].user <= post_infos[j].user

\* C40: once the pool is done, the profiles appear in the aggregated
\* result and in the report in the order of the loaded profile list, for
\* every order in which the crawl workers complete.
C40_ProfilesInLoadedOrder ==
    main_pc \notin {"start", "argv", "load", "pool"}
        => ResultsInLoadedOrder /\ ReportInLoadedOrder

====
